---------------------------- MODULE Spec2Model ----------------------------
(***************************************************************************)
(* Model of the llmchat semantic-memory services:                          *)
(*   src/services/qdrant_server.py     (Qdrant-backed index/search/reset)  *)
(*   src/services/embedding_server.py  (store-less in-memory server)        *)
(*                                                                         *)
(* Texts are sequences of one-character strings, so that lower(), strip(), *)
(* len() and the substring test of the keyword filter are computed the way *)
(* the Python code computes them; the state carries a text by its name and *)
(* TextContent gives its characters.  Scores are cosine similarities in    *)
(* hundredths, 0..100.                                                     *)
(***************************************************************************)
EXTENDS Integers, Sequences, FiniteSets, TLC

(***************************************************************************)
(* Bounds of the model                                                     *)
(***************************************************************************)
\* longest document list of one index request
MaxBatch == 2
\* number of uuid4() draws the model follows
MaxUuid == 2
\* number of threads calling ensure_collection at the same time
NumCallers == 2

(***************************************************************************)
(* Program constants                                                       *)
(***************************************************************************)
\* vector size of every collection (all-MiniLM-L6-v2)
VectorSize == 384
\* `len(text) < 100` : minimum length of a processable memory
MinContentLength == 100
\* `len(personal_text) > 20` : an extraction must be longer than this
MinMemoryLength == 20
\* `list(range(1000000))` of the reset filter
ResetIdRange == 1000000
\* data.get('top_k', 3)
DefaultTopK == 3
\* data.get('min_score', 0.1), in hundredths
DefaultMinScore == 10

(***************************************************************************)
(* Text helpers (Python str operations)                                    *)
(***************************************************************************)
Rep(c, n) == [i \in 1..n |-> c]

UpperAlphabet ==
  <<"A","B","C","D","E","F","G","H","I","J","K","L","M","N","O","P","Q","R","S","T","U","V","W","X","Y","Z">>
LowerAlphabet ==
  <<"a","b","c","d","e","f","g","h","i","j","k","l","m","n","o","p","q","r","s","t","u","v","w","x","y","z">>

\* str.lower() of one character
LowerChar(c) ==
  IF \E i \in 1..26 : UpperAlphabet[i] = c
  THEN LowerAlphabet[CHOOSE i \in 1..26 : UpperAlphabet[i] = c]
  ELSE c

\* str.lower()
Lower(s) == [i \in 1..Len(s) |-> LowerChar(s[i])]

\* `kw in s`
Contains(kw, s) ==
  \E i \in 1..(Len(s) - Len(kw) + 1) : SubSeq(s, i, i + Len(kw) - 1) = kw

IsSpace(c) == c \in {" ", "\n", "\t"}

\* str.strip()
Strip(s) ==
  LET keep == {i \in 1..Len(s) : ~IsSpace(s[i])}
  IN  IF keep = {} THEN <<>>
      ELSE LET lo == CHOOSE i \in keep : \A j \in keep : i <= j
               hi == CHOOSE i \in keep : \A j \in keep : j <= i
           IN  SubSeq(s, lo, hi)

\* the exclude_keywords list of process_memory_with_llm
exclude_keywords ==
   << <<"o","p","e","n","e","d">>,
      <<"l","a","u","n","c","h","e","d">>,
      <<"e","x","e","c","u","t","e","d">>,
      <<"t","o","o","l"," ","c","a","l","l">>,
      <<"b","r","o","w","s","e","r">>,
      <<"c","h","r","o","m","e">>,
      <<"f","i","r","e","f","o","x">>,
      <<"y","o","u","t","u","b","e">>,
      <<"w","e","b","s","i","t","e">>,
      <<"a","p","p","l","i","c","a","t","i","o","n">>,
      <<"w","i","n","d","o","w">>,
      <<"t","a","b">>,
      <<"w","o","r","k","s","p","a","c","e">>,
      <<"d","e","s","k","t","o","p">>,
      <<"s","e","a","r","c","h"," ","r","e","s","u","l","t","s">>,
      <<"f","e","t","c","h","e","d"," ","c","o","n","t","e","n","t">>,
      <<"w","e","b"," ","s","e","a","r","c","h">>,
      <<"f","o","u","n","d"," ","i","n","f","o","r","m","a","t","i","o","n">>,
      <<"s","u","c","c","e","s","s","f","u","l","l","y">>,
      <<"c","o","m","p","l","e","t","e","d">>,
      <<"f","i","n","i","s","h","e","d">>,
      <<"a","l","r","e","a","d","y"," ","r","a","n">>,
      <<"p","r","e","v","i","o","u","s","l","y"," ","e","x","e","c","u","t","e","d">>,
      <<"c","u","r","r","e","n","t"," ","s","e","s","s","i","o","n">>,
      <<"r","i","g","h","t"," ","n","o","w">>,
      <<"a","t"," ","t","h","e"," ","m","o","m","e","n","t">>,
      <<"t","e","m","p","o","r","a","r","y">>,
      <<"c","a","c","h","e">> >>

\* the exclude_keywords list that index_documents repeats inline
index_exclude_keywords ==
   << <<"o","p","e","n","e","d">>,
      <<"l","a","u","n","c","h","e","d">>,
      <<"e","x","e","c","u","t","e","d">>,
      <<"t","o","o","l"," ","c","a","l","l">>,
      <<"b","r","o","w","s","e","r">>,
      <<"c","h","r","o","m","e">>,
      <<"f","i","r","e","f","o","x">>,
      <<"y","o","u","t","u","b","e">>,
      <<"w","e","b","s","i","t","e">>,
      <<"a","p","p","l","i","c","a","t","i","o","n">>,
      <<"w","i","n","d","o","w">>,
      <<"t","a","b">>,
      <<"w","o","r","k","s","p","a","c","e">>,
      <<"d","e","s","k","t","o","p">>,
      <<"s","e","a","r","c","h"," ","r","e","s","u","l","t","s">>,
      <<"f","e","t","c","h","e","d"," ","c","o","n","t","e","n","t">>,
      <<"w","e","b"," ","s","e","a","r","c","h">>,
      <<"f","o","u","n","d"," ","i","n","f","o","r","m","a","t","i","o","n">>,
      <<"s","u","c","c","e","s","s","f","u","l","l","y">>,
      <<"c","o","m","p","l","e","t","e","d">>,
      <<"f","i","n","i","s","h","e","d">>,
      <<"a","l","r","e","a","d","y"," ","r","a","n">>,
      <<"p","r","e","v","i","o","u","s","l","y"," ","e","x","e","c","u","t","e","d">>,
      <<"c","u","r","r","e","n","t"," ","s","e","s","s","i","o","n">>,
      <<"r","i","g","h","t"," ","n","o","w">>,
      <<"a","t"," ","t","h","e"," ","m","o","m","e","n","t">>,
      <<"t","e","m","p","o","r","a","r","y">>,
      <<"c","a","c","h","e">> >>

\* any(keyword in s for keyword in kws)
AnyKeywordIn(kws, s) == \E k \in 1..Len(kws) : Contains(kws[k], s)

(***************************************************************************)
(* Texts.  A text is carried in the state by a name; TextContent gives the *)
(* characters the name stands for, and every string operation of the code  *)
(* is computed on the characters.  Distinct names have distinct contents.  *)
(***************************************************************************)
\* two short tool descriptions
TxtOpen == "open"
TxtPlay == "play"
\* one character short of the minimum length
Txt99 == "z99"
\* a long text that mentions a "TAB" (upper case in the text)
TxtKeyword == "tab"
\* a short text in which an excluded keyword occurs
TxtShortKeyword == "cache"
\* a durable personal statement, of exactly the minimum length
TxtLisbon == "lisbon"
\* texts of unlike content: their vectors are nearly orthogonal
TxtAs == "aaaa"
TxtEs == "eeee"
\* the literal NONE answer of the generator
OutNone == "none"
\* an answer of exactly 20 characters after strip()
Out20 == "out20"
\* an answer of 21 characters after strip()
Out21 == "out21"
\* a long answer that mentions a browser
OutKeyword == "outkw"

TextContent ==
  [open   |-> <<"o","p","e","n">>,
   play   |-> <<"p","l","a","y">>,
   z99    |-> Rep("z", 99),
   tab    |-> <<"T","A","B">> \o Rep("z", 110),
   cache  |-> <<"C","a","c","h","e">>,
   lisbon |-> <<"I"," ","l","i","v","e"," ","i","n"," ","L","i","s","b","o","n">>
                \o Rep("y", 84),
   none   |-> <<"N","O","N","E">>,
   out20  |-> <<" ">> \o Rep("q", 20) \o <<"\n">>,
   out21  |-> <<" ">> \o Rep("q", 21),
   outkw  |-> <<"B","r","o","w","s","e","r">> \o Rep("q", 30),
   q20    |-> Rep("q", 20),
   q21    |-> Rep("q", 21),
   aaaa   |-> Rep("a", 20),
   eeee   |-> Rep("e", 20),
   empty  |-> <<>>]

TextNames == DOMAIN TextContent

\* the characters of a text
Chars(t) == TextContent[t]

\* the text of given characters
TextNamed(chars) == CHOOSE n \in TextNames : TextContent[n] = chars

\* text.strip()
StripOf == [t \in TextNames |-> TextNamed(Strip(Chars(t)))]

\* texts callers submit
Texts == {TxtOpen, TxtPlay, Txt99, TxtKeyword, TxtShortKeyword, TxtLisbon}

(***************************************************************************)
(* The TextGenerator: what one llm(prompt, ...) call can do                *)
(***************************************************************************)
LlmTexts == {OutNone, Out20, Out21, OutKeyword}
\* the call raises (llama_cpp error, malformed response dictionary)
LlmRaises == [raises |-> TRUE, text |-> "empty"]
LlmOutcomes == {[raises |-> FALSE, text |-> t] : t \in LlmTexts} \cup {LlmRaises}
\* recorded for a generative call that was not made
NotCalled == [raises |-> FALSE, text |-> "empty"]

(***************************************************************************)
(* Content classifier: process_memory_with_llm                             *)
(***************************************************************************)
EmptyMemories == [personal |-> <<>>, world_facts |-> <<>>, volatile |-> <<>>]

\* the gate with the keyword test run on the text as given, not lowered
ClassifyGateCaseSensitive(text) ==
  \/ AnyKeywordIn(exclude_keywords, Chars(text))
  \/ Len(Chars(text)) < MinContentLength

\* the heuristic gate at the head of process_memory_with_llm
ClassifyGate(text) ==
  \/ AnyKeywordIn(exclude_keywords, Lower(Chars(text)))
  \/ Len(Chars(text)) < MinContentLength

\* the extraction filter with the keyword test run on the output as
\* generated, not lowered
ExtractedCaseSensitive(out) ==
  LET t == StripOf[out]
  IN  IF /\ Chars(t) # <<>>
         /\ Chars(t) # <<"N","O","N","E">>
         /\ Len(Chars(t)) > MinMemoryLength
         /\ ~AnyKeywordIn(exclude_keywords, Chars(t))
      THEN <<t>>
      ELSE <<>>

\* what one extraction pass keeps of the generated text
Extracted(out) ==
  LET t == StripOf[out]
  IN  IF /\ Chars(t) # <<>>
         /\ Chars(t) # <<"N","O","N","E">>
         /\ Len(Chars(t)) > MinMemoryLength
         /\ ~AnyKeywordIn(exclude_keywords, Lower(Chars(t)))
      THEN <<t>>
      ELSE <<>>

\* the gate and the extraction filter, tabulated over the texts of the model
ClassifyGateOf == [t \in Texts |-> ClassifyGate(t)]
ExtractedOf == [t \in LlmTexts |-> Extracted(t)]

\* load_llm(): a missing model file is downloaded and None is returned all
\* the same; a present file is loaded.  ok says whether the download or the
\* Llama constructor succeeds.
load_llm(state, ok) ==
  IF state = "nofile"
  THEN IF ok THEN "file" ELSE "nofile"
  ELSE IF ok THEN "loaded" ELSE "file"

\* the llm handle after the lazy-load prologue of process_memory_with_llm
LlmAfterLoad(state, ok) == IF state = "loaded" THEN state ELSE load_llm(state, ok)

\* the classifier running its gate after the first pass
process_memory_with_llm_late_gate(llmState, text, o1, o2) ==
  IF llmState # "loaded"
  THEN [result |-> EmptyMemories, calls |-> 0, raised |-> FALSE]
  ELSE IF o1.raises
  THEN [result |-> EmptyMemories, calls |-> 1, raised |-> FALSE]
  ELSE IF ClassifyGateOf[text]
  THEN [result |-> EmptyMemories, calls |-> 1, raised |-> FALSE]
  ELSE IF o2.raises
  THEN [result |-> EmptyMemories, calls |-> 2, raised |-> FALSE]
  ELSE [result |-> [personal    |-> ExtractedOf[o1.text],
                    world_facts |-> ExtractedOf[o2.text],
                    volatile    |-> <<>>],
        calls |-> 2, raised |-> FALSE]

\* the classifier with the volatile category switched on: a fact of the
\* second pass is reported as volatile too
process_memory_with_llm_volatile(llmState, text, o1, o2) ==
  IF llmState # "loaded"
  THEN [result |-> EmptyMemories, calls |-> 0, raised |-> FALSE]
  ELSE IF ClassifyGateOf[text]
  THEN [result |-> EmptyMemories, calls |-> 0, raised |-> FALSE]
  ELSE IF o1.raises
  THEN [result |-> EmptyMemories, calls |-> 1, raised |-> FALSE]
  ELSE IF o2.raises
  THEN [result |-> EmptyMemories, calls |-> 2, raised |-> FALSE]
  ELSE [result |-> [personal    |-> ExtractedOf[o1.text],
                    world_facts |-> <<>>,
                    volatile    |-> [i \in 1..Len(ExtractedOf[o2.text]) |->
                                       [text |-> ExtractedOf[o2.text][i],
                                        expires_at |-> "later"]]],
        calls |-> 2, raised |-> FALSE]

\* the classifier returning what it extracted before the failing call
process_memory_with_llm_partial(llmState, text, o1, o2) ==
  IF llmState # "loaded"
  THEN [result |-> EmptyMemories, calls |-> 0, raised |-> FALSE]
  ELSE IF ClassifyGateOf[text]
  THEN [result |-> EmptyMemories, calls |-> 0, raised |-> FALSE]
  ELSE IF o1.raises
  THEN [result |-> EmptyMemories, calls |-> 1, raised |-> FALSE]
  ELSE IF o2.raises
  THEN [result |-> [EmptyMemories EXCEPT !.personal = ExtractedOf[o1.text]],
        calls |-> 2, raised |-> FALSE]
  ELSE [result |-> [personal    |-> ExtractedOf[o1.text],
                    world_facts |-> ExtractedOf[o2.text],
                    volatile    |-> <<>>],
        calls |-> 2, raised |-> FALSE]

\* process_memory_with_llm(text): llmState is the handle after the prologue,
\* o1 and o2 what the two generative calls do.  calls counts the generative
\* calls issued, raised says whether an exception left the function.
process_memory_with_llm(llmState, text, o1, o2) ==
  IF llmState # "loaded"
  THEN [result |-> EmptyMemories, calls |-> 0, raised |-> FALSE]
  ELSE IF ClassifyGateOf[text]
  THEN [result |-> EmptyMemories, calls |-> 0, raised |-> FALSE]
  ELSE IF o1.raises
  THEN [result |-> EmptyMemories, calls |-> 1, raised |-> FALSE]
  ELSE IF o2.raises
  THEN [result |-> EmptyMemories, calls |-> 2, raised |-> FALSE]
  ELSE [result |-> [personal    |-> ExtractedOf[o1.text],
                    world_facts |-> ExtractedOf[o2.text],
                    volatile    |-> <<>>],
        calls |-> 2, raised |-> FALSE]

(***************************************************************************)
(* The VectorStore (Qdrant client in local mode) and the Embedder          *)
(***************************************************************************)
\* the collections health_check knows
Namespaces ==
  {"tools", "memories", "llm_memories", "conversation_history",
   "user_info", "world_facts", "volatile_info"}

\* namespace == 'memories' or namespace == 'llm_memories'
IsRawMemory(ns) == ns = "memories" \/ ns = "llm_memories"

NoCollection == [exists |-> FALSE, size |-> 0, distance |-> "none", points |-> {}]

\* client.create_collection raises when the collection is there already
CreateRaises(colls, name) == colls[name].exists

\* client.create_collection(name, VectorParams(size=384, distance=COSINE))
CreateCollection(colls, name) ==
  [colls EXCEPT ![name] = [exists |-> TRUE, size |-> VectorSize,
                           distance |-> "Cosine", points |-> {}]]

\* client.delete_collection(name)
DeleteCollection(colls, name) == [colls EXCEPT ![name] = NoCollection]

\* ensure_collection taking any collection it finds as it is
EnsureBranchNoRepair(colls, name) ==
  IF ~colls[name].exists THEN "create" ELSE "done"

\* ensure_collection recreating every collection it finds
EnsureBranchRecreate(colls, name) ==
  IF ~colls[name].exists THEN "create" ELSE "delete"

\* what ensure_collection does after client.get_collection: "create" when
\* the call raised (no such collection), "delete" on a vector size mismatch
EnsureBranch(colls, name) ==
  IF ~colls[name].exists THEN "create"
  ELSE IF colls[name].size # VectorSize THEN "delete"
  ELSE "done"

\* ensure_collection(name) run without interruption
ensure_collection(colls, name) ==
  LET branch == EnsureBranch(colls, name)
      c1 == IF branch = "delete" THEN DeleteCollection(colls, name) ELSE colls
  IN  IF branch = "done" THEN [ok |-> TRUE, colls |-> colls]
      ELSE IF CreateRaises(c1, name) THEN [ok |-> FALSE, colls |-> c1]
      ELSE [ok |-> TRUE, colls |-> CreateCollection(c1, name)]

\* ensure_collection over a sequence of names, stopping at the first failure
RECURSIVE EnsureAll(_, _)
EnsureAll(colls, names) ==
  IF names = <<>> THEN [ok |-> TRUE, colls |-> colls]
  ELSE LET r == ensure_collection(colls, Head(names))
       IN  IF r.ok THEN EnsureAll(r.colls, Tail(names)) ELSE r

\* number of occurrences of character c in s
CountChar(c, s) == Cardinality({i \in 1..Len(s) : s[i] = c})

\* model.encode(text): a deterministic vector for a text; distinct texts may
\* share a vector
Embed(text) ==
  <<1 + CountChar("a", Lower(Chars(text))), 1 + CountChar("e", Lower(Chars(text)))>>

\* the Embedder, tabulated
EmbedOf == [t \in TextNames |-> Embed(t)]

Dot(u, v) == u[1] * v[1] + u[2] * v[2]

\* cosine similarity of two vectors with non-negative entries, in hundredths
\* rounded down: the largest s with (s/100)^2 <= (u.v)^2 / (|u|^2 |v|^2)
Score(u, v) ==
  CHOOSE s \in 0..100 :
    /\ s * s * Dot(u, u) * Dot(v, v) <= 10000 * Dot(u, v) * Dot(u, v)
    /\ \/ s = 100
       \/ (s + 1) * (s + 1) * Dot(u, u) * Dot(v, v) > 10000 * Dot(u, v) * Dot(u, v)

\* the vectors the Embedder produces, and their similarities, tabulated
Vectors == {EmbedOf[t] : t \in TextNames}
ScoreOf == [u \in Vectors, v \in Vectors |-> Score(u, v)]

\* uuid.uuid5(uuid.NAMESPACE_DNS, name): a name-based UUID, never the name
uuid5(name) == <<"uuid5">> \o name

\* a suffix that is the same at every draw
uuid4hexFixed(n) == 0

\* uuid.uuid4().hex[:8] of the n-th draw
uuid4hex(n) == n

\* client.upsert(collection, points): a point replaces the point of its id
Upsert(colls, name, pts) ==
  [colls EXCEPT ![name].points =
     {p \in @ : \A q \in pts : q.id # p.id} \cup pts]

\* client.upsert raises when the collection is missing
UpsertRaises(colls, name) == ~colls[name].exists

\* the filter of reset_memory: payload field "id" is any of range(1000000)
ResetFilterMatches(payload) ==
  /\ "id" \in DOMAIN payload
  /\ payload["id"] \in 0..(ResetIdRange - 1)

\* client.delete(collection, FilterSelector(filter))
DeleteByFilter(colls, name) ==
  [colls EXCEPT ![name].points = {p \in @ : ~ResetFilterMatches(p.payload)}]

(***************************************************************************)
(* Requests                                                                *)
(***************************************************************************)
\* documents a caller submits to a tool index: {id, text, context}
ToolDocs ==
  { [id |-> <<"t1">>, text |-> TxtOpen, context |-> "c0"],
    [id |-> <<"t1">>, text |-> TxtPlay, context |-> "c1"],
    [id |-> <<"t2">>, text |-> TxtOpen, context |-> "c0"],
    [id |-> <<"t3">>, text |-> TxtPlay, context |-> "c0"] }

\* documents a caller submits as raw memories
MemoryDocs ==
  { [id |-> <<"m1">>, text |-> TxtLisbon,  context |-> "c1"],
    [id |-> <<"m2">>, text |-> Txt99,      context |-> "c0"],
    [id |-> <<"m3">>, text |-> TxtKeyword, context |-> "c0"] }

\* document lists of at most n documents
RECURSIVE ListsUpTo(_, _)
ListsUpTo(docs, n) ==
  IF n = 0 THEN {<<>>}
  ELSE LET shorter == ListsUpTo(docs, n - 1)
       IN  shorter \cup
           {Append(b, d) : b \in {x \in shorter : Len(x) = n - 1}, d \in docs}

\* an id occurs once in a list (ids are unique within a namespace)
DistinctIds(b) == \A i, j \in 1..Len(b) : i # j => b[i].id # b[j].id

ToolBatches == {b \in ListsUpTo(ToolDocs, MaxBatch) : DistinctIds(b)}
\* the document loop treats every document on its own, so raw-memory lists
\* are enumerated in one order of their documents: m1 before m2 before m3
IdRank(id) ==
  IF id \in {<<"m1">>, <<"d1">>} THEN 1 ELSE IF id \in {<<"m2">>, <<"d2">>} THEN 2 ELSE 3
InIdOrder(b) == \A i, j \in 1..Len(b) : i < j => IdRank(b[i].id) < IdRank(b[j].id)
MemoryBatches == {b \in ListsUpTo(MemoryDocs, MaxBatch) : InIdOrder(b)}

\* what the generative calls of an index request may do
IndexLlmOutcomes ==
  {[raises |-> FALSE, text |-> t] : t \in {OutNone, Out21}} \cup {LlmRaises}

(***************************************************************************)
(* Document router: the document loop of index_documents                   *)
(***************************************************************************)
\* the inline gate of index_documents
IndexGate(text) ==
  \/ AnyKeywordIn(index_exclude_keywords, Lower(Chars(text)))
  \/ Len(Chars(text)) < MinContentLength

IndexGateOf == [t \in Texts |-> IndexGate(t)]

\* the documents one category of memory_results gives rise to; n counts the
\* uuid4 draws so far
RECURSIVE Derive(_, _, _, _, _, _)
Derive(doc, mems, tag, target, mtype, n) ==
  IF mems = <<>> THEN [docs |-> <<>>, n |-> n]
  ELSE LET m == Head(mems)
           keep == Chars(StripOf[m]) # <<>> /\ Len(Chars(m)) > MinMemoryLength
           n1 == IF keep THEN n + 1 ELSE n
           rest == Derive(doc, Tail(mems), tag, target, mtype, n1)
           new == [id          |-> doc.id \o <<tag, uuid4hex(n1)>>,
                   text        |-> m,
                   context     |-> doc.context,
                   namespace   |-> target,
                   memory_type |-> mtype]
       IN  [docs |-> IF keep THEN <<new>> \o rest.docs ELSE rest.docs,
            n |-> rest.n]

\* the text of each volatile memory (dictionaries {text, expires_at})
VolatileTexts(vs) == [i \in 1..Len(vs) |-> vs[i].text]

\* one pass of the loop `for doc in documents`, folded over the list.
\* outs[i] is what the two generative calls for document i do; loadOk is
\* whether a load_llm attempt of this request succeeds.
RECURSIVE ProcessDocuments(_, _, _, _, _, _)
ProcessDocuments(ns, docs, outs, loadOk, llmState, n) ==
  IF docs = <<>>
  THEN [docs |-> <<>>, llm |-> llmState, n |-> n, calls |-> 0]
  ELSE
    LET doc == Head(docs)
    IN
    IF ~IsRawMemory(ns)
    THEN LET rest == ProcessDocuments(ns, Tail(docs), Tail(outs), loadOk, llmState, n)
             new == [id |-> doc.id, text |-> doc.text, context |-> doc.context,
                     namespace |-> ns, memory_type |-> "none"]
         IN  [rest EXCEPT !.docs = <<new>> \o @]
    ELSE IF IndexGateOf[doc.text]
    THEN ProcessDocuments(ns, Tail(docs), Tail(outs), loadOk, llmState, n)
    ELSE
      LET llm1 == LlmAfterLoad(llmState, loadOk)
          mr == process_memory_with_llm(llm1, doc.text, Head(outs)[1], Head(outs)[2])
          pe == Derive(doc, mr.result.personal, "_personal_", "user_info", "personal", n)
          wf == Derive(doc, mr.result.world_facts, "_world_", "world_facts", "world_fact", pe.n)
          vo == Derive(doc, VolatileTexts(mr.result.volatile), "_volatile_",
                       "volatile_info", "volatile", wf.n)
          rest == ProcessDocuments(ns, Tail(docs), Tail(outs), loadOk, llm1, vo.n)
      IN  [docs  |-> pe.docs \o wf.docs \o vo.docs \o rest.docs,
           llm   |-> rest.llm,
           n     |-> rest.n,
           calls |-> mr.calls + rest.calls]

\* a point whose id is derived from the document's text, not from its id
PointOfTextId(doc) ==
  [id      |-> uuid5(<<doc.text>>),
   vector  |-> EmbedOf[doc.text],
   payload |-> [text        |-> doc.text,
                original_id |-> doc.id,
                namespace   |-> doc.namespace,
                context     |-> doc.context,
                processed   |-> IsRawMemory(doc.namespace)]]

\* a point that does not keep the namespace of its document
PointOfRetagged(doc) ==
  [id      |-> uuid5(doc.id),
   vector  |-> EmbedOf[doc.text],
   payload |-> [text        |-> doc.text,
                original_id |-> doc.id,
                namespace   |-> "memories",
                context     |-> doc.context,
                processed   |-> IsRawMemory(doc.namespace)]]

\* models.PointStruct(id=uuid5(doc['id']), vector=..., payload={...})
PointOf(doc) ==
  [id      |-> uuid5(doc.id),
   vector  |-> EmbedOf[doc.text],
   payload |-> [text        |-> doc.text,
                original_id |-> doc.id,
                namespace   |-> doc.namespace,
                context     |-> doc.context,
                processed   |-> IsRawMemory(doc.namespace)]]

\* ensure_collection for every name of a set (collections_needed)
RECURSIVE EnsureSet(_, _)
EnsureSet(colls, names) ==
  IF names = {} THEN [ok |-> TRUE, colls |-> colls]
  ELSE LET name == CHOOSE x \in names : TRUE
           r == ensure_collection(colls, name)
       IN  IF r.ok THEN EnsureSet(r.colls, names \ {name}) ELSE r

\* the pairs of generative outcomes that differ in effect: after a first
\* call that raises there is no second call
OutcomePairs(outcomes) ==
  {o \in outcomes \X outcomes : o[1].raises => o[2] = LlmRaises}

\* the choices of generative outcomes for a document list: a pair for each
\* document that reaches the generator, given the llm handle at the start
\* of the request and whether its load_llm attempts succeed
RECURSIVE OutsFor(_, _, _, _)
OutsFor(ns, docs, llmState, loadOk) ==
  IF docs = <<>> THEN {<<>>}
  ELSE LET reaches == IsRawMemory(ns) /\ ~IndexGateOf[Head(docs).text]
           llm1 == IF reaches THEN LlmAfterLoad(llmState, loadOk) ELSE llmState
           here == IF reaches /\ llm1 = "loaded" /\ ~ClassifyGateOf[Head(docs).text]
                   THEN OutcomePairs(IndexLlmOutcomes)
                   ELSE {<<LlmRaises, LlmRaises>>}
       IN  {<<h>> \o t : h \in here, t \in OutsFor(ns, Tail(docs), llm1, loadOk)}

(***************************************************************************)
(* State                                                                   *)
(***************************************************************************)
VARIABLES
  collections,  \* the Qdrant store: name -> [exists, size, distance, points]
  model,        \* the SentenceTransformer handle: "loading", "loaded", "failed"
  llm,          \* the Llama handle and its file: "nofile", "file", "loaded"
  uuidCtr,      \* uuid4 draws so far
  last,         \* the request served last and its response
  before,       \* the store as it was when the request served last arrived
  ens,          \* the threads inside ensure_collection: caller -> [pc, name, result]
  documents_store,   \* embedding_server.py: namespace -> the documents indexed
  embeddings_store,  \* embedding_server.py: namespace -> their vectors
  thr,          \* request threads at an encode or generate call: thread -> [pc, op]
  model_lock,   \* embedding_server.py: the thread holding model_lock, 0 when free
  llm_lock      \* qdrant_server.py: the thread holding llm_lock, 0 when free

\* the state of embedding_server.py
serverVars == <<documents_store, embeddings_store>>
\* the request threads and the locks
lockVars == <<thr, model_lock, llm_lock>>

vars == <<collections, model, llm, uuidCtr, last, before, ens,
          documents_store, embeddings_store, thr, model_lock, llm_lock>>

Callers == 1..NumCallers

\* namespaces of the embedding server; "none" is never indexed
ServerNamespaces == {"tools", "docs", "none"}

\* a namespace that is no key of a store
NoEntry == [has |-> FALSE, items |-> <<>>]

\* documents_store = {} and embeddings_store = {}
NoDocuments == [n \in ServerNamespaces |-> NoEntry]

\* a request thread outside every encode and generate call
IdleThread == [pc |-> "idle", op |-> "none"]

IdleCaller == [pc |-> "idle", name |-> "none", result |-> "none", fresh |-> FALSE]

Init ==
  /\ collections = [n \in Namespaces |-> NoCollection]
  /\ model = "loading"
  /\ llm = "nofile"
  /\ uuidCtr = 0
  /\ last = [op |-> "none"]
  /\ before = collections
  /\ ens = [c \in Callers |-> IdleCaller]
  /\ documents_store = NoDocuments
  /\ embeddings_store = NoDocuments
  /\ thr = [c \in Callers |-> IdleThread]
  /\ model_lock = 0
  /\ llm_lock = 0

(***************************************************************************)
(* qdrant_server.py: the handlers, each served without interruption        *)
(***************************************************************************)
\* load_model(), the startup thread.  loads: SentenceTransformer(...) succeeds
load_model(loads) ==
  /\ model = "loading"
  /\ IF loads
     THEN LET e == EnsureAll(collections,
                     <<"memories", "tools", "llm_memories", "conversation_history">>)
          IN  /\ collections' = e.colls
              /\ model' = IF e.ok THEN "loaded" ELSE "failed"
     ELSE /\ model' = "failed"
          /\ UNCHANGED collections
  /\ last' = [op |-> "load_model"]
  /\ before' = collections
  /\ UNCHANGED <<llm, uuidCtr, ens, serverVars, lockVars>>

\* the response of index_documents; llmCalls and encodeCalled record the
\* generative calls issued and whether model.encode was reached
IndexResponse(namespace, documents, status, code, count, error, llmCalls, encodeCalled) ==
  [op |-> "index", namespace |-> namespace, documents |-> documents,
   status |-> status, code |-> code, count |-> count, error |-> error,
   llmCalls |-> llmCalls, encodeCalled |-> encodeCalled]

\* which ensure_collection of an index request raises (the store is out of
\* reach, or refuses to create the collection): none, the one of the request
\* namespace, or the one of the first target collection
StoreFailures == {"never", "ensure", "targets"}

\* ensure_collection(name) in the try block of index_documents; when the
\* store is out of reach get_collection and create_collection both raise
EnsureOrRaise(colls, name, reachable) ==
  IF reachable THEN ensure_collection(colls, name)
  ELSE [ok |-> FALSE, colls |-> colls]

\* the loop over collections_needed going on after an ensure_collection
\* that raised
EnsureNeededIgnoringErrors(colls, names, reachable) ==
  IF names = {} \/ reachable THEN EnsureSet(colls, names)
  ELSE [ok |-> TRUE, colls |-> colls]

\* the loop over collections_needed
EnsureNeeded(colls, names, reachable) ==
  IF names = {} \/ reachable THEN EnsureSet(colls, names)
  ELSE [ok |-> FALSE, colls |-> colls]

\* POST /index
index_documents(namespace, documents, outs, loadOk, encodes, store) ==
  /\ before' = collections
  /\ \E e1 \in {EnsureOrRaise(collections, namespace, store # "ensure")} :
    IF ~e1.ok
    THEN /\ collections' = e1.colls
         /\ last' = IndexResponse(namespace, documents, "error", 500, 0,
                                  "Failed to ensure collection exists", 0, FALSE)
         /\ UNCHANGED <<model, llm, uuidCtr, ens, serverVars, lockVars>>
    ELSE
      \E pr \in {ProcessDocuments(namespace, documents, outs, loadOk, llm, uuidCtr)} :
      \E e2 \in {EnsureNeeded(e1.colls,
                              {pr.docs[i].namespace : i \in 1..Len(pr.docs)},
                              store = "never")} :
        LET points == [i \in 1..Len(pr.docs) |-> PointOf(pr.docs[i])]
            response(status, code, count, error, encodeCalled) ==
              IndexResponse(namespace, documents, status, code, count, error,
                            pr.calls, encodeCalled)
        IN
        /\ pr.n <= MaxUuid
        /\ llm' = pr.llm
        /\ uuidCtr' = pr.n
        /\ UNCHANGED <<model, ens, serverVars, lockVars>>
        /\ IF ~e2.ok
           THEN /\ collections' = e2.colls
                /\ last' = response("error", 500, 0,
                                    "Failed to ensure collection exists", FALSE)
           ELSE IF ~(model = "loaded" /\ encodes)
           THEN /\ collections' = e2.colls
                /\ last' = response("error", 500, 0,
                                    "Failed to generate embeddings", TRUE)
           ELSE IF pr.docs = <<>>
           THEN /\ collections' = e2.colls
                /\ last' = response("error", 400, 0,
                                    "No valid points to index after processing", TRUE)
           ELSE IF UpsertRaises(e2.colls, namespace)
           THEN /\ collections' = e2.colls
                /\ last' = response("error", 500, 0, "Error during upsert", TRUE)
           ELSE /\ collections' = Upsert(e2.colls, namespace,
                                         {points[i] : i \in 1..Len(points)})
                /\ last' = response("success", 200, Len(points), "", TRUE)

\* the sequences client.query_points may return: the limit best points of
\* score >= threshold, best first; the order among equal scores is the store's
QueryPoints(pts, qvec, limit, threshold) ==
  LET sc(p) == ScoreOf[qvec, p.vector]
      cands == {p \in pts : sc(p) >= threshold}
      k == IF limit < Cardinality(cands) THEN limit ELSE Cardinality(cands)
      tops == {S \in SUBSET cands :
                 /\ Cardinality(S) = k
                 /\ \A p \in S, q \in cands \ S : sc(p) >= sc(q)}
  IN  UNION { {r \in [1..k -> S] :
                 /\ \A i, j \in 1..k : i # j => r[i] # r[j]
                 /\ \A i, j \in 1..k : i < j => sc(r[i]) >= sc(r[j])}
              : S \in tops }

\* formatted_results when every result fails the format test and is skipped
FormatResultsSkipping(found, qvec) == <<>>

\* the formatted_results of search_documents
FormatResults(found, qvec) ==
  [i \in 1..Len(found) |->
     [id      |-> found[i].id,
      text    |-> found[i].payload.text,
      score   |-> ScoreOf[qvec, found[i].vector],
      context |-> found[i].payload.context]]

\* POST /search
search_documents(namespace, query, top_k, min_score) ==
  LET response(status, code, results) ==
        [op |-> "search", namespace |-> namespace, query |-> query,
         top_k |-> top_k, min_score |-> min_score,
         status |-> status, code |-> code, results |-> results]
      qvec == EmbedOf[query]
  IN
  /\ before' = collections
  /\ UNCHANGED <<collections, model, llm, uuidCtr, ens, serverVars, lockVars>>
  /\ IF model # "loaded"
     THEN last' = response("error", 503, <<>>)
     ELSE IF ~collections[namespace].exists
     THEN last' = response("error", 500, <<>>)
     ELSE \E found \in QueryPoints(collections[namespace].points, qvec, top_k, min_score) :
            last' = response("success", 200, FormatResults(found, qvec))

\* reset_memory skipping the other raw-memory collection
ResetPreservesMemories(name) == name = "memories"

\* reset_memory skips this collection
ResetPreserves(name) == name = "llm_memories"

\* the collections reset_memory issues a delete against
ResetTargets(colls) == {n \in Namespaces : colls[n].exists /\ ~ResetPreserves(n)}

\* client.delete(...) for every name of a set
RECURSIVE DeleteAllByFilter(_, _)
DeleteAllByFilter(colls, names) ==
  IF names = {} THEN colls
  ELSE LET name == CHOOSE x \in names : TRUE
       IN  DeleteAllByFilter(DeleteByFilter(colls, name), names \ {name})

\* POST /reset
reset_memory ==
  /\ collections' = DeleteAllByFilter(collections, ResetTargets(collections))
  /\ last' = [op |-> "reset", status |-> "success", code |-> 200,
              cleared |-> ResetTargets(collections)]
  /\ before' = collections
  /\ UNCHANGED <<model, llm, uuidCtr, ens, serverVars, lockVars>>

\* POST /clear
clear_namespace(namespace) ==
  LET e == ensure_collection(DeleteCollection(collections, namespace), namespace)
  IN  /\ collections' = e.colls
      /\ last' = [op |-> "clear", namespace |-> namespace,
                  status |-> IF e.ok THEN "success" ELSE "error",
                  code |-> IF e.ok THEN 200 ELSE 500]
      /\ before' = collections
      /\ UNCHANGED <<model, llm, uuidCtr, ens, serverVars, lockVars>>

\* GET /health
health_check ==
  LET e == EnsureAll(collections,
             <<"tools", "memories", "llm_memories", "conversation_history",
               "user_info", "world_facts", "volatile_info">>)
  IN  /\ collections' = e.colls
      /\ last' = [op |-> "health",
                  status |-> IF e.ok THEN "healthy" ELSE "error",
                  code |-> IF e.ok THEN 200 ELSE 500,
                  model_loaded |-> model = "loaded"]
      /\ before' = collections
      /\ UNCHANGED <<model, llm, uuidCtr, ens, serverVars, lockVars>>

\* a call of process_memory_with_llm(text)
classify(text, o1, o2, loadOk) ==
  LET llm1 == LlmAfterLoad(llm, loadOk)
      r == process_memory_with_llm(llm1, text, o1, o2)
  IN  /\ llm' = llm1
      /\ last' = [op |-> "classify", text |-> text,
                  out1 |-> IF r.calls >= 1 THEN o1 ELSE NotCalled,
                  out2 |-> IF r.calls >= 2 THEN o2 ELSE NotCalled,
                  llm |-> llm1, result |-> r.result, calls |-> r.calls,
                  raised |-> r.raised]
      /\ before' = collections
      /\ UNCHANGED <<collections, model, uuidCtr, ens, serverVars, lockVars>>

(***************************************************************************)
(* Specification of the Qdrant server, requests served one at a time:      *)
(* a tool index and the maintenance endpoints                              *)
(***************************************************************************)
SearchNamespaces == {"tools", "user_info"}
SearchQueries == {TxtOpen, TxtPlay}
TopKs == {1, DefaultTopK}
MinScores == {0, DefaultMinScore, 100}
ClearNamespaces == {"tools", "llm_memories"}

LoadChoices == IF llm = "loaded" THEN {TRUE} ELSE BOOLEAN
EncodeChoices == IF model = "loaded" THEN BOOLEAN ELSE {FALSE}

LoadModel == \E loads \in BOOLEAN : load_model(loads)

\* the embedder's outcomes worth telling apart: none when the store fails
\* before model.encode is reached
EncodeChoicesOf(store) == IF store = "never" THEN EncodeChoices ELSE {TRUE}

IndexTools ==
  \E documents \in ToolBatches, store \in StoreFailures :
    \E encodes \in EncodeChoicesOf(store) :
      \E outs \in OutsFor("tools", documents, llm, TRUE) :
        index_documents("tools", documents, outs, TRUE, encodes, store)

Search ==
  \E namespace \in SearchNamespaces, query \in SearchQueries,
     top_k \in TopKs, min_score \in MinScores :
    search_documents(namespace, query, top_k, min_score)

Reset == reset_memory

Clear == \E namespace \in ClearNamespaces : clear_namespace(namespace)

Health == health_check

Next == LoadModel \/ IndexTools \/ Search \/ Reset \/ Clear \/ Health

Spec == Init /\ [][Next]_vars

(***************************************************************************)
(* Specification of the raw-memory pipeline: the service after a           *)
(* successful start, indexing raw memories                                 *)
(***************************************************************************)
RawNamespaces == {"memories", "llm_memories"}

InitMemory ==
  /\ collections =
       [n \in Namespaces |->
          IF n \in {"memories", "tools", "llm_memories", "conversation_history"}
          THEN [exists |-> TRUE, size |-> VectorSize, distance |-> "Cosine",
                points |-> {}]
          ELSE NoCollection]
  /\ model = "loaded"
  /\ llm = "nofile"
  /\ uuidCtr = 0
  /\ last = [op |-> "none"]
  /\ before = collections
  /\ ens = [c \in Callers |-> IdleCaller]
  /\ documents_store = NoDocuments
  /\ embeddings_store = NoDocuments
  /\ thr = [c \in Callers |-> IdleThread]
  /\ model_lock = 0
  /\ llm_lock = 0

IndexMemory ==
  \E namespace \in RawNamespaces, documents \in MemoryBatches,
     store \in StoreFailures :
    \E loadOk \in (IF store = "ensure" THEN {TRUE} ELSE LoadChoices),
       encodes \in EncodeChoicesOf(store) :
      \E outs \in (IF store = "ensure"
                   THEN {CHOOSE o \in OutsFor(namespace, documents, llm, loadOk) : TRUE}
                   ELSE OutsFor(namespace, documents, llm, loadOk)) :
        index_documents(namespace, documents, outs, loadOk, encodes, store)

\* the generative outcomes to choose for a call of the classifier: none when
\* the call cannot reach the generator
ClassifyOuts(text, loadOk) ==
  IF LlmAfterLoad(llm, loadOk) = "loaded" /\ ~ClassifyGateOf[text]
  THEN OutcomePairs(LlmOutcomes)
  ELSE {<<LlmRaises, LlmRaises>>}

Classify ==
  \E text \in Texts, loadOk \in LoadChoices :
    \E o \in ClassifyOuts(text, loadOk) :
      classify(text, o[1], o[2], loadOk)

NextMemory == IndexMemory \/ Classify \/ Reset

SpecMemory == InitMemory /\ [][NextMemory]_vars

(***************************************************************************)
(* Specification of the collection manager: threads inside                 *)
(* ensure_collection, one store call per step.  The store is as a previous *)
(* run of the service (possibly of another embedding model) left it.       *)
(***************************************************************************)
EnsureNamespaces == {"user_info", "tools"}

\* a point an earlier run stored
OldPoint ==
  PointOf([id |-> <<"t1">>, text |-> TxtOpen, context |-> "c0",
           namespace |-> "tools", memory_type |-> "none"])

\* a collection as an earlier run can have left it: none, one of the
\* configured vector size and metric, one of another vector size, one of
\* another metric
OldCollections ==
  { NoCollection,
    [exists |-> TRUE, size |-> VectorSize, distance |-> "Cosine", points |-> {OldPoint}],
    [exists |-> TRUE, size |-> 768, distance |-> "Cosine", points |-> {OldPoint}],
    [exists |-> TRUE, size |-> VectorSize, distance |-> "Euclid", points |-> {OldPoint}] }

InitEnsure ==
  /\ \E a \in OldCollections, b \in OldCollections :
       collections = [n \in Namespaces |->
                        IF n = "user_info" THEN a
                        ELSE IF n = "tools" THEN b
                        ELSE NoCollection]
  /\ model = "loaded"
  /\ llm = "nofile"
  /\ uuidCtr = 0
  /\ last = [op |-> "none"]
  /\ before = collections
  /\ ens = [c \in Callers |-> IdleCaller]
  /\ documents_store = NoDocuments
  /\ embeddings_store = NoDocuments
  /\ thr = [c \in Callers |-> IdleThread]
  /\ model_lock = 0
  /\ llm_lock = 0

\* a thread enters ensure_collection(name); fresh records whether the
\* collection was missing at that moment
EnsureCall(c, name) ==
  /\ ens[c].pc = "idle"
  /\ ens' = [ens EXCEPT ![c] = [pc |-> "get", name |-> name, result |-> "none",
                                fresh |-> ~collections[name].exists]]
  /\ UNCHANGED <<collections, model, llm, uuidCtr, last, before, serverVars, lockVars>>

\* client.get_collection(name) and the vector size test
EnsureGet(c) ==
  /\ ens[c].pc = "get"
  /\ LET branch == EnsureBranch(collections, ens[c].name)
     IN  ens' = [ens EXCEPT ![c].pc = branch,
                            ![c].result = IF branch = "done" THEN "ok" ELSE "none"]
  /\ UNCHANGED <<collections, model, llm, uuidCtr, last, before, serverVars, lockVars>>

\* client.delete_collection(name), then raise Exception("Vector size mismatch")
EnsureDelete(c) ==
  /\ ens[c].pc = "delete"
  /\ collections' = DeleteCollection(collections, ens[c].name)
  /\ ens' = [ens EXCEPT ![c].pc = "create"]
  /\ UNCHANGED <<model, llm, uuidCtr, last, before, serverVars, lockVars>>

\* client.create_collection(name, ...) in the except branch; its exception
\* reaches the outer handler, which raises it again
EnsureCreate(c) ==
  /\ ens[c].pc = "create"
  /\ IF CreateRaises(collections, ens[c].name)
     THEN /\ ens' = [ens EXCEPT ![c].pc = "done", ![c].result = "error"]
          /\ UNCHANGED collections
     ELSE /\ ens' = [ens EXCEPT ![c].pc = "done", ![c].result = "ok"]
          /\ collections' = CreateCollection(collections, ens[c].name)
  /\ UNCHANGED <<model, llm, uuidCtr, last, before, serverVars, lockVars>>

\* the thread leaves ensure_collection
EnsureReturn(c) ==
  /\ ens[c].pc = "done"
  /\ ens' = [ens EXCEPT ![c] = IdleCaller]
  /\ UNCHANGED <<collections, model, llm, uuidCtr, last, before, serverVars, lockVars>>

NextEnsure ==
  \E c \in Callers :
    \/ \E name \in EnsureNamespaces : EnsureCall(c, name)
    \/ EnsureGet(c)
    \/ EnsureDelete(c)
    \/ EnsureCreate(c)
    \/ EnsureReturn(c)

SpecEnsure == InitEnsure /\ [][NextEnsure]_vars


(***************************************************************************)
(* embedding_server.py: the store-less server.  index and search hold      *)
(* model_lock for their whole body; requests are served one at a time.     *)
(***************************************************************************)
\* `score > 0.1` of search
ServerMinScore == 10

\* documents a caller submits to the embedding server: {id, text}
ServerDocs ==
  { [id |-> <<"d1">>, text |-> TxtOpen],
    [id |-> <<"d2">>, text |-> TxtOpen],
    [id |-> <<"d3">>, text |-> TxtEs] }

\* document lists, enumerated in one order of their documents
ServerBatches == {b \in ListsUpTo(ServerDocs, MaxBatch) : InIdOrder(b)}

\* model.encode(texts): a vector for each text
EncodeAll(documents) == [i \in 1..Len(documents) |-> EmbedOf[documents[i].text]]

\* the sequences torch.topk(scores, k).indices may return: k positions of
\* the highest scores, best first; the order among equal scores is torch's
TopK(scores, k) ==
  {r \in [1..k -> 1..Len(scores)] :
     /\ \A i, j \in 1..k : i # j => r[i] # r[j]
     /\ \A i, j \in 1..k : i < j => scores[r[i]] >= scores[r[j]]
     /\ \A i \in 1..k : \A j \in 1..Len(scores) :
          (\A h \in 1..k : r[h] # j) => scores[r[i]] >= scores[j]}

\* a step of search that raises: the except branch answers 500
SearchRaises == [raises |-> TRUE, items |-> <<>>]

\* what one namespace appends to all_results (the body of the loop over
\* namespaces): the possible outcomes
NamespaceResults(namespace, qvec, top_k, docStore, embStore) ==
  IF ~embStore[namespace].has
  THEN {[raises |-> FALSE, items |-> <<>>]}
  ELSE IF ~docStore[namespace].has
  THEN {SearchRaises}
  ELSE
    LET documents == docStore[namespace].items
        embeddings == embStore[namespace].items
        cos_scores == [i \in 1..Len(embeddings) |-> ScoreOf[qvec, embeddings[i]]]
        namespace_top_k == IF top_k < Len(documents) THEN top_k ELSE Len(documents)
        entry(idx) == [namespace |-> namespace,
                       id        |-> documents[idx].id,
                       text      |-> documents[idx].text,
                       score     |-> cos_scores[idx]]
    IN  IF Len(documents) = 0
        THEN {[raises |-> FALSE, items |-> <<>>]}
        ELSE IF namespace_top_k > Len(embeddings)
        THEN {SearchRaises}
        ELSE { IF \E i \in 1..namespace_top_k : r[i] > Len(documents)
               THEN SearchRaises
               ELSE [raises |-> FALSE,
                     items  |-> SelectSeq([i \in 1..namespace_top_k |-> entry(r[i])],
                                          LAMBDA e : e.score > ServerMinScore)]
               : r \in TopK(cos_scores, namespace_top_k) }

\* all_results after the loop over the requested namespaces, in request order
RECURSIVE AllResults(_, _, _, _, _)
AllResults(namespaces, qvec, top_k, docStore, embStore) ==
  IF namespaces = <<>> THEN {[raises |-> FALSE, items |-> <<>>]}
  ELSE { IF h.raises \/ t.raises THEN SearchRaises
         ELSE [raises |-> FALSE, items |-> h.items \o t.items]
         : h \in NamespaceResults(Head(namespaces), qvec, top_k, docStore, embStore),
           t \in AllResults(Tail(namespaces), qvec, top_k, docStore, embStore) }

\* a sort step that puts an entry before the entries of its own score
InsertBeforeEqual(sorted, e) ==
  LET n == Cardinality({i \in 1..Len(sorted) : sorted[i].score > e.score})
  IN  SubSeq(sorted, 1, n) \o <<e>> \o SubSeq(sorted, n + 1, Len(sorted))

\* one step of list.sort(key=score, reverse=True): the entry goes after the
\* entries of a score at least its own (the sort is stable)
InsertByScore(sorted, e) ==
  LET n == Cardinality({i \in 1..Len(sorted) : sorted[i].score >= e.score})
  IN  SubSeq(sorted, 1, n) \o <<e>> \o SubSeq(sorted, n + 1, Len(sorted))

\* all_results left in the order of discovery
SortByScoreSkipped(items) == items

\* all_results.sort(key=lambda x: x['score'], reverse=True)
RECURSIVE SortByScore(_)
SortByScore(items) ==
  IF items = <<>> THEN <<>>
  ELSE InsertByScore(SortByScore(SubSeq(items, 1, Len(items) - 1)), items[Len(items)])

\* all_results[:top_k]
Truncate(items, top_k) ==
  SubSeq(items, 1, IF top_k < Len(items) THEN top_k ELSE Len(items))

\* load_model() of embedding_server.py
embedding_load_model(loads) ==
  /\ model = "loading"
  /\ model' = IF loads THEN "loaded" ELSE "failed"
  /\ last' = [op |-> "load_model"]
  /\ UNCHANGED <<collections, llm, uuidCtr, before, ens, serverVars, lockVars>>

\* POST /index adding the documents to those the namespace holds
embedding_index_documents_appending(namespace, documents, encodes) ==
  LET response(status, code, count) ==
        [op |-> "index", namespace |-> namespace, submitted |-> Len(documents),
         documents |-> documents,
         status |-> status, code |-> code, count |-> count,
         encoded |-> model = "loaded" /\ encodes]
      all == documents_store[namespace].items \o documents
  IN
  /\ UNCHANGED <<collections, model, llm, uuidCtr, before, ens, lockVars>>
  /\ IF model # "loaded"
     THEN /\ last' = response("error", 500, 0)
          /\ UNCHANGED serverVars
     ELSE /\ Len(all) <= MaxBatch
          /\ documents_store' =
               [documents_store EXCEPT ![namespace] = [has |-> TRUE, items |-> all]]
          /\ IF encodes
             THEN /\ embeddings_store' =
                       [embeddings_store EXCEPT
                          ![namespace] = [has |-> TRUE, items |-> EncodeAll(all)]]
                  /\ last' = response("success", 200, Len(documents))
             ELSE /\ UNCHANGED embeddings_store
                  /\ last' = response("error", 500, 0)

\* POST /index of embedding_server.py
embedding_index_documents(namespace, documents, encodes) ==
  LET response(status, code, count) ==
        [op |-> "index", namespace |-> namespace, submitted |-> Len(documents),
         documents |-> documents,
         status |-> status, code |-> code, count |-> count,
         encoded |-> model = "loaded" /\ encodes]
  IN
  /\ UNCHANGED <<collections, model, llm, uuidCtr, before, ens, lockVars>>
  /\ IF model # "loaded"
     THEN /\ last' = response("error", 500, 0)
          /\ UNCHANGED serverVars
     ELSE /\ documents_store' =
               [documents_store EXCEPT ![namespace] = [has |-> TRUE, items |-> documents]]
          /\ IF encodes
             THEN /\ embeddings_store' =
                       [embeddings_store EXCEPT
                          ![namespace] = [has |-> TRUE, items |-> EncodeAll(documents)]]
                  /\ last' = response("success", 200, Len(documents))
             ELSE /\ UNCHANGED embeddings_store
                  /\ last' = response("error", 500, 0)

\* POST /search of embedding_server.py
embedding_search(query, top_k, namespaces, min_score) ==
  LET response(status, code, candidates, results) ==
        [op |-> "search", query |-> query, top_k |-> top_k,
         namespaces |-> namespaces, min_score |-> min_score,
         status |-> status, code |-> code,
         candidates |-> candidates, results |-> results]
  IN
  /\ UNCHANGED <<collections, model, llm, uuidCtr, before, ens, serverVars, lockVars>>
  /\ IF model # "loaded"
     THEN last' = response("error", 500, <<>>, <<>>)
     ELSE \E all \in AllResults(namespaces, EmbedOf[query], top_k,
                                documents_store, embeddings_store) :
            IF all.raises
            THEN last' = response("error", 500, <<>>, <<>>)
            ELSE last' = response("success", 200, all.items,
                                  Truncate(SortByScore(all.items), top_k))

\* POST /clear of embedding_server.py
embedding_clear_namespace(namespace) ==
  /\ embeddings_store' = [embeddings_store EXCEPT ![namespace] = NoEntry]
  /\ documents_store' = [documents_store EXCEPT ![namespace] = NoEntry]
  /\ last' = [op |-> "clear", namespace |-> namespace, status |-> "success",
              code |-> 200]
  /\ UNCHANGED <<collections, model, llm, uuidCtr, before, ens, lockVars>>

(***************************************************************************)
(* Specification of the embedding server                                   *)
(***************************************************************************)
IndexedNamespaces == {"tools", "docs"}
ServerQueries == {TxtOpen, TxtAs}
ServerTopKs == {1, 2}
\* the `min_score` of a search request, in hundredths: the caller asks for
\* results of score 0.5 and more (the handler does not read the field)
ServerMinScores == {50}
\* the `namespaces` of a search, in request order
NamespaceLists ==
  {<<"tools">>, <<"tools", "docs">>, <<"docs", "tools">>, <<"none", "docs">>}

InitServer ==
  /\ collections = [n \in Namespaces |-> NoCollection]
  /\ model = "loading"
  /\ llm = "nofile"
  /\ uuidCtr = 0
  /\ last = [op |-> "none"]
  /\ documents_store = NoDocuments
  /\ embeddings_store = NoDocuments
  /\ before = collections
  /\ ens = [c \in Callers |-> IdleCaller]
  /\ thr = [c \in Callers |-> IdleThread]
  /\ model_lock = 0
  /\ llm_lock = 0

ServerLoadModel == \E loads \in BOOLEAN : embedding_load_model(loads)

ServerIndex ==
  \E namespace \in IndexedNamespaces, documents \in ServerBatches,
     encodes \in EncodeChoices :
    embedding_index_documents(namespace, documents, encodes)

ServerSearch ==
  \E query \in ServerQueries, top_k \in ServerTopKs, namespaces \in NamespaceLists,
     min_score \in ServerMinScores :
    embedding_search(query, top_k, namespaces, min_score)

ServerClear == \E namespace \in IndexedNamespaces : embedding_clear_namespace(namespace)

NextServer == ServerLoadModel \/ ServerIndex \/ ServerSearch \/ ServerClear

SpecServer == InitServer /\ [][NextServer]_vars

(***************************************************************************)
(* Request threads.  Both servers are started with app.run(host, port):    *)
(* every request is served on a thread of its own.  A thread is followed    *)
(* through the calls of its handler into the embedder (model.encode) and    *)
(* the generative model (llm(...)), and through the locks on its way.       *)
(***************************************************************************)
\* the handlers that call the embedder or the generative model
QdrantOps == {"qdrant_index_memory", "qdrant_index", "qdrant_search"}
EmbeddingOps == {"embedding_index", "embedding_search"}

\* the threads of one process: no thread is serving a request of the other
\* program
SameServer(c, op) ==
  \A d \in Callers \ {c} :
    thr[d].pc = "idle" \/ (thr[d].op \in QdrantOps <=> op \in QdrantOps)

\* the positions at which a thread is inside model.encode or llm(...)
ModelCalls == {"encode", "generate_personal", "generate_facts"}

InitLock ==
  /\ collections =
       [n \in Namespaces |->
          [exists |-> TRUE, size |-> VectorSize, distance |-> "Cosine",
           points |-> {}]]
  /\ model = "loaded"
  /\ llm = "nofile"
  /\ uuidCtr = 0
  /\ last = [op |-> "none"]
  /\ before = collections
  /\ ens = [c \in Callers |-> IdleCaller]
  /\ documents_store = NoDocuments
  /\ embeddings_store = NoDocuments
  /\ thr = [c \in Callers |-> IdleThread]
  /\ model_lock = 0
  /\ llm_lock = 0

lockFrame == <<collections, model, uuidCtr, last, before, ens, serverVars>>

\* a request for index or search of qdrant_server.py arrives: index on a
\* raw-memory namespace goes into process_memory_with_llm, index on another
\* namespace and search go straight to model.encode
QdrantRequest(c) ==
  \E op \in QdrantOps :
    /\ thr[c].pc = "idle"
    /\ SameServer(c, op)
    /\ thr' = [thr EXCEPT ![c] = [pc |-> IF op = "qdrant_index_memory" THEN "check_llm" ELSE "encode",
                                op |-> op]]
    /\ UNCHANGED <<llm, model_lock, llm_lock, lockFrame>>

\* process_memory_with_llm: `if not llm:`
CheckLlm(c) ==
  /\ thr[c].pc = "check_llm"
  /\ thr' = [thr EXCEPT ![c].pc = IF llm = "loaded" THEN "generate_personal" ELSE "llm_lock_wait"]
  /\ UNCHANGED <<llm, model_lock, llm_lock, lockFrame>>

\* `with llm_lock:`
AcquireLlmLock(c) ==
  /\ thr[c].pc = "llm_lock_wait"
  /\ llm_lock = 0
  /\ llm_lock' = c
  /\ thr' = [thr EXCEPT ![c].pc = "load_llm"]
  /\ UNCHANGED <<llm, model_lock, lockFrame>>

\* inside llm_lock: `if not llm: llm = load_llm()`, and the return of the
\* empty result when there is no model after it; the lock is released
LoadLlm(c) ==
  \E ok \in BOOLEAN :
    /\ thr[c].pc = "load_llm"
    /\ llm' = LlmAfterLoad(llm, ok)
    /\ llm_lock' = 0
    /\ thr' = IF llm' = "loaded"
              THEN [thr EXCEPT ![c].pc = "generate_personal"]
              ELSE [thr EXCEPT ![c] = IdleThread]
    /\ UNCHANGED <<model_lock, lockFrame>>

\* the first llm(...) call returns or raises
GeneratePersonal(c) ==
  \E raises \in BOOLEAN :
    /\ thr[c].pc = "generate_personal"
    /\ thr' = [thr EXCEPT ![c].pc = IF raises THEN "encode" ELSE "generate_facts"]
    /\ UNCHANGED <<llm, model_lock, llm_lock, lockFrame>>

\* the second llm(...) call returns or raises
GenerateFacts(c) ==
  /\ thr[c].pc = "generate_facts"
  /\ thr' = [thr EXCEPT ![c].pc = "encode"]
  /\ UNCHANGED <<llm, model_lock, llm_lock, lockFrame>>

\* model.encode of a handler of qdrant_server.py returns or raises
QdrantEncode(c) ==
  /\ thr[c].pc = "encode"
  /\ thr[c].op \in QdrantOps
  /\ thr' = [thr EXCEPT ![c] = IdleThread]
  /\ UNCHANGED <<llm, model_lock, llm_lock, lockFrame>>

\* a request for index or search of embedding_server.py arrives and comes
\* to `with model_lock:`
EmbeddingRequest(c) ==
  \E op \in EmbeddingOps :
    /\ thr[c].pc = "idle"
    /\ SameServer(c, op)
    /\ thr' = [thr EXCEPT ![c] = [pc |-> "model_lock_wait", op |-> op]]
    /\ UNCHANGED <<llm, model_lock, llm_lock, lockFrame>>

\* `with model_lock:` is entered, the thread goes on to model.encode
AcquireModelLock(c) ==
  /\ thr[c].pc = "model_lock_wait"
  /\ model_lock = 0
  /\ model_lock' = c
  /\ thr' = [thr EXCEPT ![c].pc = "encode"]
  /\ UNCHANGED <<llm, llm_lock, lockFrame>>

\* model_lock released by hand at the end of the block, so that an
\* exception leaves it held
LeaveModelLockOnReturn(c, raises) == IF raises THEN model_lock ELSE 0

\* model_lock when thread c leaves the block of `with model_lock:`, by
\* return or by an exception of model.encode or save_namespace
LeaveModelLock(c, raises) == 0

\* model.encode of a handler of embedding_server.py returns or raises; the
\* block of model_lock is left
EmbeddingEncode(c) ==
  \E raises \in BOOLEAN :
    /\ thr[c].pc = "encode"
    /\ thr[c].op \in EmbeddingOps
    /\ model_lock' = LeaveModelLock(c, raises)
    /\ thr' = [thr EXCEPT ![c] = IdleThread]
    /\ UNCHANGED <<llm, llm_lock, lockFrame>>

NextLock ==
  \E c \in Callers :
    \/ QdrantRequest(c)
    \/ CheckLlm(c)
    \/ AcquireLlmLock(c)
    \/ LoadLlm(c)
    \/ GeneratePersonal(c)
    \/ GenerateFacts(c)
    \/ QdrantEncode(c)
    \/ EmbeddingRequest(c)
    \/ AcquireModelLock(c)
    \/ EmbeddingEncode(c)

SpecLock == InitLock /\ [][NextLock]_vars

\* the threads are scheduled fairly: a thread that can take a step of its
\* handler takes it, and a thread waiting for a lock that becomes free again
\* and again gets it; no request has to arrive
SpecLockFair ==
  /\ SpecLock
  /\ \A c \in Callers :
       /\ WF_vars(CheckLlm(c))
       /\ SF_vars(AcquireLlmLock(c))
       /\ WF_vars(LoadLlm(c))
       /\ WF_vars(GeneratePersonal(c))
       /\ WF_vars(GenerateFacts(c))
       /\ WF_vars(QdrantEncode(c))
       /\ SF_vars(AcquireModelLock(c))
       /\ WF_vars(EmbeddingEncode(c))

(***************************************************************************)
(* qdrant_server.py at startup: the thread running load_model sets the      *)
(* embedder handle and then calls ensure_collection for its four            *)
(* collections, while app.run already serves requests whose handlers call   *)
(* ensure_collection on threads of their own.                               *)
(***************************************************************************)
StartupThread == 1

StartupNamespaces == <<"memories", "tools", "llm_memories", "conversation_history">>

InitStartup ==
  /\ \E a \in OldCollections, b \in OldCollections :
       collections = [n \in Namespaces |->
                        IF n = "user_info" THEN a
                        ELSE IF n = "tools" THEN b
                        ELSE NoCollection]
  /\ model = "loading"
  /\ llm = "nofile"
  /\ uuidCtr = 0
  /\ last = [op |-> "none"]
  /\ before = collections
  /\ ens = [c \in Callers |-> IdleCaller]
  /\ documents_store = NoDocuments
  /\ embeddings_store = NoDocuments
  /\ thr = [c \in Callers |-> IdleThread]
  /\ model_lock = 0
  /\ llm_lock = 0

\* model = SentenceTransformer(...) succeeds; the thread goes on to
\* ensure_collection('memories')
StartupLoaded ==
  /\ model = "loading"
  /\ ens[StartupThread].pc = "idle"
  /\ model' = "loaded"
  /\ ens' = [ens EXCEPT ![StartupThread] =
               [pc |-> "get", name |-> StartupNamespaces[1], result |-> "none",
                fresh |-> ~collections[StartupNamespaces[1]].exists]]
  /\ UNCHANGED <<collections, llm, uuidCtr, last, before, serverVars, lockVars>>

\* an ensure_collection call of load_model returns: the next collection is
\* ensured, load_model ends after the last one, and an exception reaches
\* `except Exception: model = None; raise`
StartupReturn ==
  /\ ens[StartupThread].pc = "done"
  /\ LET i == CHOOSE k \in 1..Len(StartupNamespaces) :
                StartupNamespaces[k] = ens[StartupThread].name
     IN  IF ens[StartupThread].result = "error"
         THEN /\ model' = "failed"
              /\ ens' = [ens EXCEPT ![StartupThread] = IdleCaller]
         ELSE IF i < Len(StartupNamespaces)
         THEN /\ ens' = [ens EXCEPT ![StartupThread] =
                           [pc |-> "get", name |-> StartupNamespaces[i + 1],
                            result |-> "none",
                            fresh |-> ~collections[StartupNamespaces[i + 1]].exists]]
              /\ UNCHANGED model
         ELSE /\ ens' = [ens EXCEPT ![StartupThread] = IdleCaller]
              /\ UNCHANGED model
  /\ UNCHANGED <<collections, llm, uuidCtr, last, before, serverVars, lockVars>>

NextStartup ==
  \/ StartupLoaded
  \/ StartupReturn
  \/ \E c \in Callers :
       \/ EnsureGet(c)
       \/ EnsureDelete(c)
       \/ EnsureCreate(c)
  \/ \E c \in Callers \ {StartupThread} :
       \/ \E name \in EnsureNamespaces : EnsureCall(c, name)
       \/ EnsureReturn(c)

SpecStartup == InitStartup /\ [][NextStartup]_vars

(***************************************************************************)
(* embedding_server.py: a search and a clear of one namespace on threads of *)
(* their own.  search reads the two dictionaries inside model_lock, one      *)
(* access at a time; clear_namespace deletes from them without the lock.     *)
(***************************************************************************)
InitRace ==
  /\ collections = [n \in Namespaces |-> NoCollection]
  /\ model = "loaded"
  /\ llm = "nofile"
  /\ uuidCtr = 0
  /\ last = [op |-> "none"]
  /\ before = collections
  /\ ens = [c \in Callers |-> IdleCaller]
  /\ \E documents \in ServerBatches :
       /\ documents_store =
            [NoDocuments EXCEPT !["tools"] = [has |-> TRUE, items |-> documents]]
       /\ embeddings_store =
            [NoDocuments EXCEPT !["tools"] = [has |-> TRUE, items |-> EncodeAll(documents)]]
  /\ thr = [c \in Callers |-> IdleThread]
  /\ model_lock = 0
  /\ llm_lock = 0

\* a search over the namespace arrives and comes to `with model_lock:`
SearchBegin(c) ==
  /\ thr[c].pc = "idle"
  /\ thr' = [thr EXCEPT ![c] = [pc |-> "model_lock_wait", op |-> "embedding_search"]]
  /\ UNCHANGED <<llm, model_lock, llm_lock, lockFrame>>

\* the query is encoded, then `if namespace not in embeddings_store: continue`
SearchCheck(c) ==
  /\ thr[c].pc = "encode"
  /\ thr[c].op = "embedding_search"
  /\ IF embeddings_store["tools"].has
     THEN /\ thr' = [thr EXCEPT ![c].pc = "read_embeddings"]
          /\ last' = [op |-> "search", status |-> "running", used |-> FALSE,
                      embeddings |-> <<>>, documents |-> <<>>]
          /\ UNCHANGED model_lock
     ELSE /\ thr' = [thr EXCEPT ![c] = IdleThread]
          /\ last' = [op |-> "search", status |-> "success", used |-> FALSE,
                      embeddings |-> <<>>, documents |-> <<>>]
          /\ model_lock' = 0
  /\ UNCHANGED <<collections, model, llm, uuidCtr, before, ens, serverVars, llm_lock>>

\* `embeddings = embeddings_store[namespace]`; a KeyError is answered 500
SearchReadEmbeddings(c) ==
  /\ thr[c].pc = "read_embeddings"
  /\ IF embeddings_store["tools"].has
     THEN /\ thr' = [thr EXCEPT ![c].pc = "read_documents"]
          /\ last' = [last EXCEPT !.embeddings = embeddings_store["tools"].items]
          /\ UNCHANGED model_lock
     ELSE /\ thr' = [thr EXCEPT ![c] = IdleThread]
          /\ last' = [last EXCEPT !.status = "error"]
          /\ model_lock' = 0
  /\ UNCHANGED <<collections, model, llm, uuidCtr, before, ens, serverVars, llm_lock>>

\* `documents = documents_store[namespace]`, the scoring of what was read and
\* the response; a KeyError is answered 500
SearchReadDocuments(c) ==
  /\ thr[c].pc = "read_documents"
  /\ IF documents_store["tools"].has
     THEN last' = [last EXCEPT !.status = "success", !.used = TRUE,
                               !.documents = documents_store["tools"].items]
     ELSE last' = [last EXCEPT !.status = "error"]
  /\ thr' = [thr EXCEPT ![c] = IdleThread]
  /\ model_lock' = 0
  /\ UNCHANGED <<collections, model, llm, uuidCtr, before, ens, serverVars, llm_lock>>

\* a clear of the namespace arrives: `del embeddings_store[namespace]`
ClearEmbeddings(c) ==
  /\ thr[c].pc = "idle"
  /\ thr' = [thr EXCEPT ![c] = [pc |-> "del_documents", op |-> "embedding_clear"]]
  /\ embeddings_store' = [embeddings_store EXCEPT !["tools"] = NoEntry]
  /\ UNCHANGED <<collections, model, llm, uuidCtr, last, before, ens,
                 documents_store, model_lock, llm_lock>>

\* `del documents_store[namespace]` and the response
ClearDocuments(c) ==
  /\ thr[c].pc = "del_documents"
  /\ thr' = [thr EXCEPT ![c] = IdleThread]
  /\ documents_store' = [documents_store EXCEPT !["tools"] = NoEntry]
  /\ UNCHANGED <<collections, model, llm, uuidCtr, last, before, ens,
                 embeddings_store, model_lock, llm_lock>>

NextRace ==
  \E c \in Callers :
    \/ SearchBegin(c)
    \/ AcquireModelLock(c)
    \/ SearchCheck(c)
    \/ SearchReadEmbeddings(c)
    \/ SearchReadDocuments(c)
    \/ ClearEmbeddings(c)
    \/ ClearDocuments(c)

SpecRace == InitRace /\ [][NextRace]_vars

(***************************************************************************)
(* Properties                                                              *)
(***************************************************************************)
\* the points of every collection
StoredPoints(colls) == [n \in Namespaces |-> colls[n].points]

\* a point made from an extraction of the classifier (its id carries the
\* category tag and the uuid4 suffix)
IsDerivedPoint(p) == Len(p.payload.original_id) > 1

\* the points of a collection made from the document of a given id
PointsOfId(colls, name, id) ==
  {p \in colls[name].points : p.payload.original_id = id}

\* C1: when two concurrent callers run ensure for a namespace that did not
\* exist when either of them entered, then once both are through the
\* collection exists and neither of them got an error.
C1_ConcurrentEnsureBothSucceed ==
  \A c, d \in Callers :
    ( /\ c # d
      /\ ens[c].pc = "done" /\ ens[d].pc = "done"
      /\ ens[c].name = ens[d].name
      /\ ens[c].fresh /\ ens[d].fresh )
    => /\ collections[ens[c].name].exists
       /\ ens[c].result = "ok"
       /\ ens[d].result = "ok"

\* C2: every stored point lies in the collection its payload namespace
\* names, and no derived point lies in a raw-memory collection.
C2_DerivedStoredInTarget ==
  \A n \in Namespaces : \A p \in collections[n].points :
    /\ p.payload.namespace = n
    /\ IsDerivedPoint(p) => ~IsRawMemory(n)

\* the request reached the point-building step with nothing to store: it
\* did not fail on a collection or on the embedder, and the list was empty
\* or every document of it is stopped by the gate of a raw-memory namespace
C3_NothingToStore ==
  /\ last.op = "index"
  /\ last.error \notin {"Failed to ensure collection exists",
                        "Failed to generate embeddings"}
  /\ \/ last.documents = <<>>
     \/ /\ IsRawMemory(last.namespace)
        /\ \A i \in 1..Len(last.documents) : IndexGateOf[last.documents[i].text]

\* C3: an index request that ends with zero points to store answers success
\* with count 0, not an error, and changes no stored point.
C3_ZeroPointsIsSuccess ==
  C3_NothingToStore =>
    /\ last.status = "success"
    /\ last.count = 0
    /\ StoredPoints(collections) = StoredPoints(before)

\* C4: after reset_memory answers success, every existing collection other
\* than llm_memories holds no point.
C4_ResetEmptiesOthers ==
  (last.op = "reset" /\ last.status = "success") =>
    \A n \in Namespaces \ {"llm_memories"} :
      collections[n].exists => collections[n].points = {}

\* C5: reset_memory leaves llm_memories as it was (same collection, same
\* points) and issues no delete against it.
C5_ResetPreservesLlmMemories ==
  last.op = "reset" =>
    /\ collections["llm_memories"] = before["llm_memories"]
    /\ "llm_memories" \notin last.cleared

\* C5 witness: a reset served while llm_memories held points and deletes
\* were issued against other collections
C5_Witness ==
  /\ last.op = "reset"
  /\ last.status = "success"
  /\ before["llm_memories"].points # {}
  /\ collections["llm_memories"].points = before["llm_memories"].points
  /\ last.cleared # {}

\* the text is shorter than 100 characters or some substring of it equals,
\* letter case aside, a keyword of the exclusion list
C6_Transient(text) ==
  LET s == Chars(text)
  IN  \/ Len(s) < 100
      \/ \E k \in 1..Len(exclude_keywords) :
           \E i \in 1..Len(s) :
             /\ i + Len(exclude_keywords[k]) - 1 <= Len(s)
             /\ Lower(SubSeq(s, i, i + Len(exclude_keywords[k]) - 1)) = exclude_keywords[k]

C6_TransientOf == [t \in Texts |-> C6_Transient(t)]

\* C6: for a text shorter than 100 characters or containing an excluded
\* keyword in any letter case, the classifier returns all three categories
\* empty, and an index request on a raw-memory namespace stores no point
\* for a document of such a text.
C6_TransientYieldsNothing ==
  /\ (last.op = "classify" /\ C6_TransientOf[last.text]) =>
       last.result = EmptyMemories
  /\ (last.op = "index" /\ IsRawMemory(last.namespace)) =>
       \A i \in 1..Len(last.documents) :
         C6_TransientOf[last.documents[i].text] =>
           \A n \in Namespaces :
             \A p \in collections[n].points \ before[n].points :
               Head(p.payload.original_id) # Head(last.documents[i].id)

\* C6 witness: the loaded classifier was given a long text holding a keyword
\* in upper case and returned nothing
C6_Witness ==
  /\ last.op = "classify"
  /\ last.llm = "loaded"
  /\ last.text = TxtKeyword
  /\ Len(Chars(last.text)) >= 100
  /\ last.result = EmptyMemories

\* C7: when a generative call of the classifier raises, the classifier
\* returns all categories empty, also when the first pass had extracted a
\* fact; no exception leaves it and the failed call is not issued again.
C7_GenerativeErrorYieldsEmpty ==
  (last.op = "classify" /\ (last.out1.raises \/ last.out2.raises)) =>
    /\ last.result = EmptyMemories
    /\ ~last.raised
    /\ last.calls = IF last.out1.raises THEN 1 ELSE 2

\* C7 witness: the first pass extracted a fact, the second call raised
C7_Witness ==
  /\ last.op = "classify"
  /\ last.calls = 2
  /\ ~last.out1.raises
  /\ ExtractedOf[last.out1.text] # <<>>
  /\ last.out2.raises
  /\ last.result = EmptyMemories

\* C8: a successful index of a pass-through document whose id the namespace
\* already holds leaves exactly one point for that id, carrying the text
\* just submitted; when every document of the request was held already, the
\* point count of the namespace is unchanged.
C8_ReindexOverwrites ==
  (last.op = "index" /\ last.status = "success" /\ ~IsRawMemory(last.namespace)) =>
    LET ns == last.namespace
        docs == last.documents
        held == {i \in 1..Len(docs) : PointsOfId(before, ns, docs[i].id) # {}}
    IN  /\ \A i \in held :
             /\ Cardinality(PointsOfId(collections, ns, docs[i].id)) = 1
             /\ \A p \in PointsOfId(collections, ns, docs[i].id) :
                  p.payload.text = docs[i].text
        /\ held = 1..Len(docs) =>
             Cardinality(collections[ns].points) = Cardinality(before[ns].points)

\* C8 witness: document t1 was held with one text and indexed again, alone,
\* with another text
C8_Witness ==
  /\ last.op = "index"
  /\ last.status = "success"
  /\ last.namespace = "tools"
  /\ Len(last.documents) = 1
  /\ \E p \in PointsOfId(before, "tools", last.documents[1].id) :
       p.payload.text # last.documents[1].text
  /\ \E p \in PointsOfId(collections, "tools", last.documents[1].id) :
       p.payload.text = last.documents[1].text
  /\ Cardinality(before["tools"].points) >= 2

\* the results of the search served last hold point p with a score above
\* the min_score of the request
C9_Returned(p) ==
  \E i \in 1..Len(last.results) :
    /\ last.results[i].id = p.id
    /\ last.results[i].text = p.payload.text
    /\ last.results[i].score > last.min_score

\* C9 as stated: a search of a namespace with a query equal to the text of a
\* pass-through document indexed there returns that document with a score
\* above min_score.
C9_IndexedDocFound ==
  last.op = "search" =>
    \A p \in collections[last.namespace].points :
      (p.payload.text = last.query /\ ~IsRawMemory(p.payload.namespace)) =>
        C9_Returned(p)

\* C9 amended: a search of a namespace with a query equal to the text of a
\* pass-through document indexed there returns that document with a score
\* above min_score, provided min_score is below the score of an exact match
\* (1.0) and fewer than top_k other points of the namespace score as high as
\* an exact match.
C9_IndexedDocFoundAmended ==
  last.op = "search" =>
    \A p \in collections[last.namespace].points :
      ( /\ p.payload.text = last.query
        /\ ~IsRawMemory(p.payload.namespace)
        /\ last.min_score < 100
        /\ Cardinality({q \in collections[last.namespace].points \ {p} :
                          ScoreOf[EmbedOf[last.query], q.vector] >= 100})
             < last.top_k )
      => C9_Returned(p)

\* C9 witness: a search with top_k = 1 in a namespace of several points, one
\* of them of the query's text, returned that one
C9_Witness ==
  /\ last.op = "search"
  /\ last.status = "success"
  /\ last.top_k = 1
  /\ last.min_score < 100
  /\ Cardinality(collections[last.namespace].points) >= 2
  /\ \E p \in collections[last.namespace].points :
       /\ p.payload.text = last.query
       /\ C9_Returned(p)

\* C10: every search result carries, as its id, the id under which the
\* caller indexed the document the result stands for.
C10_ResultIdIsCallerId ==
  last.op = "search" =>
    \A i \in 1..Len(last.results) :
      \E p \in collections[last.namespace].points :
        /\ p.payload.text = last.results[i].text
        /\ p.payload.context = last.results[i].context
        /\ p.payload.original_id = last.results[i].id

\* the ways to read the results of the search served last as a selection of
\* its candidates: result i is candidate f[i], no candidate taken twice
C11_Selections ==
  {f \in [1..Len(last.results) -> 1..Len(last.candidates)] :
     /\ \A i, j \in 1..Len(last.results) : i # j => f[i] # f[j]
     /\ \A i \in 1..Len(last.results) : last.results[i] = last.candidates[f[i]]}

\* C11: a search over several namespaces returns the top_k highest-scoring
\* entries of the concatenation of the candidates of its namespaces: at most
\* top_k entries, as many as there are candidates up to top_k, each of them
\* a candidate, and no candidate left out scores higher than one returned.
C11_GlobalRerank ==
  (last.op = "search" /\ last.status = "success") =>
    /\ Len(last.results) <= last.top_k
    /\ Len(last.results) =
         (IF last.top_k < Len(last.candidates) THEN last.top_k ELSE Len(last.candidates))
    /\ \E f \in C11_Selections :
         \A j \in 1..Len(last.candidates) :
           (\A i \in 1..Len(last.results) : f[i] # j) =>
             \A i \in 1..Len(last.results) :
               last.results[i].score >= last.candidates[j].score

\* C11 witness: with top_k = 2 and both namespaces contributing candidates,
\* the two results come from one namespace, the second one
C11_Witness ==
  /\ last.op = "search"
  /\ last.status = "success"
  /\ last.top_k = 2
  /\ Len(last.namespaces) = 2
  /\ Len(last.results) = 2
  /\ \A i \in 1..2 : last.results[i].namespace = last.namespaces[2]
  /\ \E j \in 1..Len(last.candidates) :
       last.candidates[j].namespace = last.namespaces[1]

\* C12: every list a search returns is sorted by score, highest first, and
\* results of equal score stand in the order of their discovery: the results
\* can be read as a selection of the candidates (kept in discovery order:
\* namespaces in request order, candidates in per-namespace order) in which
\* of two results the earlier has the higher score or, at equal scores, the
\* earlier place among the candidates.
C12_SortedStable ==
  (last.op = "search" /\ last.status = "success") =>
    /\ \A i, j \in 1..Len(last.results) :
         i < j => last.results[i].score >= last.results[j].score
    /\ \E f \in [1..Len(last.results) -> 1..Len(last.candidates)] :
         /\ \A i \in 1..Len(last.results) : last.results[i] = last.candidates[f[i]]
         /\ \A i, j \in 1..Len(last.results) :
              (i < j /\ last.results[i].score = last.results[j].score) => f[i] < f[j]
         /\ \A i \in 1..Len(last.results) : \A h \in 1..Len(last.candidates) :
              (h < f[i] /\ last.candidates[h].score = last.results[i].score) =>
                \E g \in 1..Len(last.results) : f[g] = h

\* C12 witness: two results of equal score from different namespaces, in the
\* order of the request, after a candidate of a lower score was discovered
\* before the second of them
C12_Witness ==
  /\ last.op = "search"
  /\ last.status = "success"
  /\ Len(last.results) = 2
  /\ last.results[1].score = last.results[2].score
  /\ last.results[1].namespace = last.namespaces[1]
  /\ last.results[2].namespace # last.namespaces[1]
  /\ \E h \in 1..Len(last.candidates) :
       last.candidates[h].score < last.results[1].score

\* C13: a search of a namespace that does not exist does not fail: with the
\* embedding model loaded it answers success with no results.
C13_MissingNamespaceTolerated ==
  ( /\ last.op = "search"
    /\ model = "loaded"
    /\ ~collections[last.namespace].exists )
  => /\ last.status = "success"
     /\ last.results = <<>>

\* C14: whatever the namespace was before (absent, of the configured
\* dimension, of another dimension or metric), when ensure_collection has
\* returned without error and no other caller is inside it, the collection
\* exists with vector size 384 and the cosine metric.
C14_EnsuredHasConfiguredSchema ==
  \A c \in Callers :
    ( /\ ens[c].pc = "done"
      /\ ens[c].result = "ok"
      /\ \A d \in Callers \ {c} : ens[d].pc = "idle" )
    => /\ collections[ens[c].name].exists
       /\ collections[ens[c].name].size = VectorSize
       /\ collections[ens[c].name].distance = "Cosine"

\* C15: ensure_collection, run on its own on any store, returns without
\* error; on a collection that exists with the configured vector size it
\* leaves the store as it is (nothing created, nothing deleted, the points
\* kept); and a second call in sequence leaves the store the first call left.
C15_EnsureIdempotent ==
  \A n \in Namespaces :
    LET once == ensure_collection(collections, n)
        twice == ensure_collection(once.colls, n)
    IN  /\ once.ok
        /\ twice.ok
        /\ twice.colls = once.colls
        /\ (collections[n].exists /\ collections[n].size = VectorSize) =>
             once.colls = collections

\* C15 witness: a caller has come through ensure_collection for a
\* collection that existed with the configured size before the call, and
\* its points are still there
C15_Witness ==
  \E c \in Callers :
    /\ ens[c].pc = "done"
    /\ ens[c].result = "ok"
    /\ ~ens[c].fresh
    /\ collections[ens[c].name].size = VectorSize
    /\ collections[ens[c].name].points = {OldPoint}
    /\ ensure_collection(collections, ens[c].name).colls = collections

\* C16: at no time are two request threads inside a call of the embedder
\* (model.encode) or of the generative model (llm(...)): at most one such
\* call is in progress.
C16_OneModelCallAtATime ==
  \A c, d \in Callers :
    (thr[c].pc \in ModelCalls /\ thr[d].pc \in ModelCalls) => c = d

\* C17: when the embedder fails during an index request, the request is
\* aborted: the answer is an error with count 0 and the documents and the
\* vectors of every namespace are what they were before the request.
C17_EncodeFailureAborts ==
  [][ (model = "loaded" /\ last'.op = "index" /\ ~last'.encoded) =>
        /\ last'.status = "error"
        /\ last'.count = 0
        /\ documents_store' = documents_store
        /\ embeddings_store' = embeddings_store ]_vars

\* C19: after a clear that answered success, the cleared namespace exists
\* and holds nothing.
C19_ClearedNamespaceExists ==
  (last.op = "clear" /\ last.status = "success") =>
    /\ documents_store[last.namespace] = [has |-> TRUE, items |-> <<>>]
    /\ embeddings_store[last.namespace] = [has |-> TRUE, items |-> <<>>]

\* a document of the last request that went to the classifier and of which
\* the request stored no point: the classifier gave no category for it, or
\* the classification raised
C18_Dropped(doc) ==
  /\ ~IndexGateOf[doc.text]
  /\ \A n \in Namespaces : \A p \in collections[n].points \ before[n].points :
       Head(p.payload.original_id) # Head(doc.id)

\* C18: an index request on a raw-memory namespace does not fail because a
\* document of it is dropped by the classification: when the collections
\* and the embedder are in order, a request with a dropped document still
\* answers success.
C18_DroppedDocumentTolerated ==
  ( /\ last.op = "index"
    /\ IsRawMemory(last.namespace)
    /\ last.error \notin {"Failed to ensure collection exists",
                          "Failed to generate embeddings",
                          "Error during upsert"} )
  => \A i \in 1..Len(last.documents) :
       C18_Dropped(last.documents[i]) => last.status = "success"

\* C20: an index request on a namespace that is not a raw-memory namespace
\* makes no classifier or generative call, and for every document of it
\* exactly one point lies in the request's collection afterwards that
\* carries the document's id; its payload text, original id and context
\* are the document's and its payload namespace is the request's.
C20_PassThroughUnchanged ==
  ( /\ last.op = "index"
    /\ last.namespace \notin {"memories", "llm_memories"}
    /\ last.status = "success" )
  => /\ last.llmCalls = 0
     /\ last.count = Len(last.documents)
     /\ \A i \in 1..Len(last.documents) :
          LET doc == last.documents[i]
              pts == PointsOfId(collections, last.namespace, doc.id)
          IN  /\ Cardinality(pts) = 1
              /\ \A p \in pts :
                   /\ p.payload.text = doc.text
                   /\ p.payload.context = doc.context
                   /\ p.payload.namespace = last.namespace
                   /\ p \notin before[last.namespace].points
                        => p.id = uuid5(doc.id)

\* C20 witness: a request of two documents on the tools namespace answered
\* success while the generative model was loaded, over a collection that
\* held a point of one of the ids with another text
C20_Witness ==
  /\ last.op = "index"
  /\ last.namespace = "tools"
  /\ last.status = "success"
  /\ Len(last.documents) = 2
  /\ \E p \in before["tools"].points :
       /\ p.payload.original_id = last.documents[1].id
       /\ p.payload.text # last.documents[1].text
  /\ Cardinality(collections["tools"].points) >= 2

\* an output that is the literal NONE or has fewer than 20 characters
C21_NoResult(out) ==
  LET s == Strip(Chars(out))
  IN  s = <<"N","O","N","E">> \/ Len(s) < 20

\* an output of 20 or more characters that is not NONE and holds no keyword
C21_Acceptable(out) ==
  LET s == Strip(Chars(out))
  IN  /\ Len(s) >= 20
      /\ s # <<"N","O","N","E">>
      /\ ~AnyKeywordIn(exclude_keywords, Lower(s))

C21_NoResultOf == [t \in LlmTexts |-> C21_NoResult(t)]
C21_AcceptableOf == [t \in LlmTexts |-> C21_Acceptable(t)]

\* C21: when both generative calls of a classification return, each pass
\* gives nothing for an output that is NONE or shorter than 20 characters,
\* and gives the output as its one memory when the output has 20 or more
\* characters, is not NONE and holds no excluded keyword.
C21_ExtractionThreshold ==
  (last.op = "classify" /\ last.calls = 2
     /\ ~last.out1.raises /\ ~last.out2.raises) =>
    /\ C21_NoResultOf[last.out1.text] => last.result.personal = <<>>
    /\ C21_NoResultOf[last.out2.text] => last.result.world_facts = <<>>
    /\ C21_AcceptableOf[last.out1.text] =>
         last.result.personal = <<StripOf[last.out1.text]>>
    /\ C21_AcceptableOf[last.out2.text] =>
         last.result.world_facts = <<StripOf[last.out2.text]>>

\* some substring of the text equals, letter case aside, a keyword of the
\* exclusion list
C22_HasKeyword(text) ==
  LET s == Chars(text)
  IN  \E k \in 1..Len(exclude_keywords) :
        \E i \in 1..Len(s) :
          /\ i + Len(exclude_keywords[k]) - 1 <= Len(s)
          /\ Lower(SubSeq(s, i, i + Len(exclude_keywords[k]) - 1)) = exclude_keywords[k]

C22_HasKeywordOf == [t \in TextNames |-> C22_HasKeyword(t)]

\* C22: no memory the classifier returns as personal or as world fact holds
\* an excluded keyword in any letter case, and no stored point derived by
\* an index request holds one in its text.
C22_NoKeywordInExtraction ==
  /\ last.op = "classify" =>
       /\ \A i \in 1..Len(last.result.personal) :
            ~C22_HasKeywordOf[last.result.personal[i]]
       /\ \A i \in 1..Len(last.result.world_facts) :
            ~C22_HasKeywordOf[last.result.world_facts[i]]
  /\ \A n \in Namespaces : \A p \in collections[n].points :
       IsDerivedPoint(p) => ~C22_HasKeywordOf[p.payload.text]

\* C22 witness: the generator answered the first pass with a long text
\* holding a keyword with a capital letter and the second with a usable
\* fact; the classifier returned the fact alone
C22_Witness ==
  /\ last.op = "classify"
  /\ last.calls = 2
  /\ ~last.out1.raises /\ ~last.out2.raises
  /\ last.out1.text = OutKeyword
  /\ C22_HasKeywordOf[OutKeyword]
  /\ last.result.personal = <<>>
  /\ last.result.world_facts # <<>>

\* C23: the classifier returns the volatile category empty, and no stored
\* point was derived as a volatile memory: none carries the volatile tag in
\* its id, none names volatile_info as its namespace, and the collection
\* volatile_info holds no point.
C23_VolatileAlwaysEmpty ==
  /\ last.op = "classify" => last.result.volatile = <<>>
  /\ collections["volatile_info"].points = {}
  /\ \A n \in Namespaces : \A p \in collections[n].points :
       /\ p.payload.namespace # "volatile_info"
       /\ IsDerivedPoint(p) => p.payload.original_id[2] # "_volatile_"

\* C23 witness: an index request on a raw-memory namespace stored a
\* personal memory and a world fact derived from one document
C23_Witness ==
  /\ last.op = "index"
  /\ IsRawMemory(last.namespace)
  /\ last.status = "success"
  /\ last.llmCalls = 2
  /\ \E n \in Namespaces : \E p, q \in collections[n].points :
       /\ IsDerivedPoint(p) /\ IsDerivedPoint(q)
       /\ p.payload.original_id[2] = "_personal_"
       /\ q.payload.original_id[2] = "_world_"

\* C24: a thread that is not serving a request holds no lock, and under
\* fair scheduling every request that has arrived returns: a thread waiting
\* for model_lock or llm_lock gets it, and the thread becomes idle again.
C24_NoRequestBlocksForever ==
  /\ [](\A c \in Callers :
          thr[c].pc = "idle" => (model_lock # c /\ llm_lock # c))
  /\ \A c \in Callers : (thr[c].pc # "idle") ~> (thr[c].pc = "idle")

\* C24 witness: a request waits for model_lock while another thread holds it
\* inside model.encode
C24_Witness ==
  \E c, d \in Callers :
    /\ thr[c].pc = "model_lock_wait"
    /\ thr[d].pc = "encode"
    /\ thr[d].op \in EmbeddingOps
    /\ model_lock = d

\* C25: ensure_collection, run on its own on a store in which the collection
\* exists with a vector size other than the configured one, returns without
\* error and leaves that collection with the configured size, the cosine
\* metric and no point, and every other collection as it was.
C25_MismatchRecreatesEmpty ==
  \A n \in Namespaces :
    (collections[n].exists /\ collections[n].size # VectorSize) =>
      LET once == ensure_collection(collections, n)
      IN  /\ once.ok
          /\ once.colls[n].exists
          /\ once.colls[n].size = VectorSize
          /\ once.colls[n].points = {}
          /\ \A m \in Namespaces \ {n} : once.colls[m] = collections[m]

\* C25 witness: a lone caller has come through ensure_collection for a
\* collection that was there when it entered and held a point; the
\* collection is there, of the configured size, and empty, while the other
\* collection still has its mismatching size and its point
C25_Witness ==
  \E c \in Callers :
    /\ ens[c].pc = "done"
    /\ ens[c].result = "ok"
    /\ ~ens[c].fresh
    /\ ens[c].name = "user_info"
    /\ \A d \in Callers \ {c} : ens[d].pc = "idle"
    /\ collections["user_info"].exists
    /\ collections["user_info"].size = VectorSize
    /\ collections["user_info"].points = {}
    /\ collections["tools"].size # VectorSize
    /\ collections["tools"].points = {OldPoint}

\* the documents of the last request that the gate does not reject
C26_Admitted ==
  {i \in 1..Len(last.documents) : ~C6_TransientOf[last.documents[i].text]}

\* C26: for a text the gate rejects (an excluded keyword in it, or fewer
\* than 100 characters) the classifier issues no generative call, and an
\* index request on a raw-memory namespace issues generative calls for the
\* other documents only: at most two for each.
C26_GateBeforeGeneration ==
  /\ (last.op = "classify" /\ C6_TransientOf[last.text]) =>
       /\ last.calls = 0
       /\ last.out1 = NotCalled
       /\ last.out2 = NotCalled
  /\ (last.op = "index" /\ IsRawMemory(last.namespace)) =>
       last.llmCalls <= 2 * Cardinality(C26_Admitted)

\* C26 witness: an index request on a raw-memory namespace with a rejected
\* and an admitted document, for which the loaded generator was called
\* twice
C26_Witness ==
  /\ last.op = "index"
  /\ IsRawMemory(last.namespace)
  /\ Len(last.documents) = 2
  /\ Cardinality(C26_Admitted) = 1
  /\ last.llmCalls = 2

\* C27: every result of a successful search has a score that meets the
\* min_score of the request, and no namespace has more than top_k of its
\* documents among the candidates of the merge.
C27_ResultsMeetMinScore ==
  (last.op = "search" /\ last.status = "success") =>
    /\ \A i \in 1..Len(last.results) : last.results[i].score >= last.min_score
    /\ \A n \in ServerNamespaces :
         Cardinality({i \in 1..Len(last.candidates) :
                        last.candidates[i].namespace = n}) <= last.top_k

\* C28: when an index request has reached the embedding step, the
\* collection of the request namespace and the collection of the target
\* namespace of every point it stored exist; and when an ensure_collection
\* of the request failed, the answer is an error with count 0, the
\* embedding step was not reached and no collection has other points than
\* before.
C28_EnsureBeforeEmbedding ==
  last.op = "index" =>
    /\ last.encodeCalled =>
         /\ collections[last.namespace].exists
         /\ \A n \in Namespaces : \A p \in collections[n].points \ before[n].points :
              collections[p.payload.namespace].exists
    /\ last.error = "Failed to ensure collection exists" =>
         /\ last.status = "error"
         /\ last.count = 0
         /\ ~last.encodeCalled
         /\ StoredPoints(collections) = StoredPoints(before)

\* C28 witness: the classifier derived a memory from the document of an
\* index request, and the ensure_collection of its target collection failed
C28_Witness ==
  /\ last.op = "index"
  /\ IsRawMemory(last.namespace)
  /\ last.llmCalls = 2
  /\ last.error = "Failed to ensure collection exists"
  /\ ~last.encodeCalled
  /\ last.count = 0

\* C29: a successful index request on a raw-memory namespace appends: the
\* collection keeps every point it had and gains as many points as the
\* request derived, also when the same document was indexed before.
C29_DerivedAppend ==
  (last.op = "index" /\ IsRawMemory(last.namespace) /\ last.status = "success") =>
    /\ before[last.namespace].points \subseteq collections[last.namespace].points
    /\ Cardinality(collections[last.namespace].points) =
         Cardinality(before[last.namespace].points) + last.count
    /\ \A p \in collections[last.namespace].points \ before[last.namespace].points :
         IsDerivedPoint(p)

\* C29 witness: the collection held a memory derived from a document, the
\* document was indexed again and the same memory was derived again; both
\* points are there
C29_Witness ==
  /\ last.op = "index"
  /\ IsRawMemory(last.namespace)
  /\ last.status = "success"
  /\ \E p \in before[last.namespace].points :
       \E q \in collections[last.namespace].points \ before[last.namespace].points :
         /\ Head(p.payload.original_id) = Head(q.payload.original_id)
         /\ p.payload.original_id[2] = q.payload.original_id[2]
         /\ p.payload.text = q.payload.text
         /\ p.id # q.id

\* C30: in the store-less server a namespace has vectors exactly when it
\* has documents, as many vectors as documents, and vector i is the
\* embedding of document i.
C30_VectorsMatchDocuments ==
  \A n \in ServerNamespaces :
    /\ embeddings_store[n].has <=> documents_store[n].has
    /\ Len(embeddings_store[n].items) = Len(documents_store[n].items)
    /\ \A i \in 1..Len(documents_store[n].items) :
         i <= Len(embeddings_store[n].items) =>
           embeddings_store[n].items[i] = EmbedOf[documents_store[n].items[i].text]

\* C33: the processed flag of a stored point is true exactly when the point
\* was derived by the classifier, and false for a pass-through point.
C33_ProcessedMarksDerived ==
  \A n \in Namespaces : \A p \in collections[n].points :
    p.payload.processed <=> IsDerivedPoint(p)

\* C34: a successful index request of the store-less server leaves in its
\* namespace exactly the documents submitted, in the order submitted, with
\* the embedding of each; it answers with their number, and the documents
\* and vectors of every other namespace are as before the request.
C34_IndexReplacesNamespace ==
  [][ (last'.op = "index" /\ last'.status = "success") =>
        /\ documents_store'[last'.namespace] =
             [has |-> TRUE, items |-> last'.documents]
        /\ embeddings_store'[last'.namespace] =
             [has |-> TRUE, items |-> EncodeAll(last'.documents)]
        /\ last'.count = Len(last'.documents)
        /\ \A n \in ServerNamespaces \ {last'.namespace} :
             /\ documents_store'[n] = documents_store[n]
             /\ embeddings_store'[n] = embeddings_store[n] ]_vars

\* C34 witness: a successful index request of one document, while the
\* other namespace holds two documents
C34_Witness ==
  /\ last.op = "index"
  /\ last.status = "success"
  /\ last.namespace = "tools"
  /\ Len(last.documents) = 1
  /\ documents_store["tools"].items = last.documents
  /\ Len(documents_store["docs"].items) = 2
  /\ Len(embeddings_store["docs"].items) = 2

\* C31: a search that runs while the namespace is cleared does not fail: it
\* answers success, having either passed the namespace over as absent or
\* used vectors and documents that belong together.
C31_ClearNeverFailsSearch ==
  (last.op = "search" /\ last.status # "running") =>
    /\ last.status = "success"
    /\ last.used => last.embeddings = EncodeAll(last.documents)


\* C32: once the sentence-embedding model has loaded, the embedder handle
\* stays set, whatever the interleaving of the startup thread's
\* ensure_collection calls with those of the requests being served.
C32_ModelStaysSet ==
  [][model = "loaded" => model' = "loaded"]_vars

=============================================================================
